---- MODULE Spec2Model ----
(***************************************************************************)
(* The traversal engine of WebLinkCollector: collectWebLinks and its       *)
(* recursive collectLinks (src/src/collector.ts), the URL filter           *)
(* isUrlAllowed / isUrlInQueryParams, the link extractor                   *)
(* extractLinksFromHtml and the fetcher fetchUrlContent.                   *)
(*                                                                         *)
(* A JavaScript string is a sequence of one-character strings, so that     *)
(* includes / startsWith / new URL() are computed on the text itself.      *)
(* The URL grammar is restricted to scheme://host/path?query#hash without  *)
(* ports, user info, percent escapes or dot segments; within that grammar  *)
(* new URL() lower-cases scheme and host and adds the "/" of an empty path. *)
(***************************************************************************)
EXTENDS Integers, Sequences, FiniteSets, TLC

(***************************************************************************)
(* String primitives (String.prototype.startsWith / includes / indexOf).   *)
(***************************************************************************)
Min(a, b) == IF a <= b THEN a ELSE b

Max(a, b) == IF a >= b THEN a ELSE b

StartsWithAt(s, p, i) ==
    /\ i + Len(p) - 1 <= Len(s)
    /\ \A k \in 1..Len(p) : s[i + k - 1] = p[k]

StartsWith(s, p) == StartsWithAt(s, p, 1)

Includes(s, p) == \E i \in 1..(Len(s) + 1) : StartsWithAt(s, p, i)

\* Index of the first occurrence of p in s at or after position from; 0 if none.
IndexOfFrom(s, p, from) ==
    LET hits == {i \in from..(Len(s) + 1) : StartsWithAt(s, p, i)}
    IN  IF hits = {} THEN 0 ELSE CHOOSE i \in hits : \A j \in hits : i <= j

IndexOf(s, p) == IndexOfFrom(s, p, 1)

Slice(s, from, to) == IF from > to THEN <<>> ELSE SubSeq(s, from, to)

\* The members of a sequence.
Range(s) == {s[i] : i \in 1..Len(s)}

\* String.prototype.trim, for the white space " ".
RECURSIVE TrimStart(_)
TrimStart(s) == IF s # <<>> /\ s[1] = " " THEN TrimStart(Tail(s)) ELSE s

RECURSIVE TrimEnd(_)
TrimEnd(s) ==
    IF s # <<>> /\ s[Len(s)] = " " THEN TrimEnd(SubSeq(s, 1, Len(s) - 1)) ELSE s

Trim(s) == TrimEnd(TrimStart(s))

NoDuplicates(s) == \A i, j \in 1..Len(s) : s[i] = s[j] => i = j

(***************************************************************************)
(* new URL(text): the WHATWG parse of the restricted grammar.  ok = FALSE  *)
(* is the TypeError new URL throws.  http and https need "//" and a        *)
(* non-empty host; any other scheme is parsed with an opaque path.         *)
(***************************************************************************)
SchemeChars == {"a", "b", "c", "d", "e", "f", "g", "h", "i", "j", "k", "l", "m",
                "n", "o", "p", "q", "r", "s", "t", "u", "v", "w", "x", "y", "z"}

InvalidUrl == [ok |-> FALSE, protocol |-> <<>>, hostname |-> <<>>,
               pathname |-> <<>>, search |-> <<>>, hash |-> <<>>]

UpperChars == <<"A", "B", "C", "D", "E", "F", "G", "H", "I", "J", "K", "L", "M",
                "N", "O", "P", "Q", "R", "S", "T", "U", "V", "W", "X", "Y", "Z">>

LowerChars == <<"a", "b", "c", "d", "e", "f", "g", "h", "i", "j", "k", "l", "m",
                "n", "o", "p", "q", "r", "s", "t", "u", "v", "w", "x", "y", "z">>

\* The scheme and the host of a URL are lower-cased by the parser.
LowerChar(c) ==
    IF \E k \in 1..26 : UpperChars[k] = c
    THEN LowerChars[CHOOSE k \in 1..26 : UpperChars[k] = c]
    ELSE c

ToLowerCase(s) == [i \in 1..Len(s) |-> LowerChar(s[i])]

\* Position of the ":" ending a scheme, 0 when text does not start with one.
SchemeEndAt(text, c) ==
    IF c > 1 /\ \A k \in 1..(c - 1) : LowerChar(text[k]) \in SchemeChars THEN c ELSE 0

SchemeEnd(text) == SchemeEndAt(text, IndexOf(text, <<":">>))

\* The first position at or after from holding one of the characters, or
\* Len(text) + 1.
FirstOf(text, chars, from) ==
    LET hits == {i \in from..Len(text) : text[i] \in chars}
    IN  IF hits = {} THEN Len(text) + 1
        ELSE CHOOSE i \in hits : \A j \in hits : i <= j

IsSpecial(protocol) == protocol \in { <<"h", "t", "t", "p", ":">>, <<"h", "t", "t", "p", "s", ":">> }

\* The parts of text, given where its host (hostStart = pathStart when it has
\* none), its path, its query and its hash start.  search and hash carry their
\* "?" / "#" and are empty when nothing follows it.
UrlParts(text, protocol, hostStart, pathStart, queryStart, hashStart) ==
    [ok |-> TRUE,
     protocol |-> protocol,
     hostname |-> ToLowerCase(Slice(text, hostStart, pathStart - 1)),
     pathname |-> IF IsSpecial(protocol) /\ pathStart = queryStart THEN <<"/">>
                  ELSE Slice(text, pathStart, queryStart - 1),
     search |-> IF hashStart - queryStart > 1 /\ text[queryStart] = "?"
                THEN Slice(text, queryStart, hashStart - 1) ELSE <<>>,
     hash |-> IF Len(text) > hashStart THEN Slice(text, hashStart, Len(text)) ELSE <<>>]

ParseFromPath(text, protocol, hostStart, pathStart) ==
    IF IsSpecial(protocol) /\ pathStart = hostStart THEN InvalidUrl  \* empty host
    ELSE UrlParts(text, protocol, hostStart, pathStart,
                  FirstOf(text, {"?", "#"}, pathStart), FirstOf(text, {"#"}, pathStart))

ParseFromScheme(text, c, protocol) ==
    IF ~IsSpecial(protocol) THEN ParseFromPath(text, protocol, c + 1, c + 1)
    ELSE IF ~StartsWithAt(text, <<"/", "/">>, c + 1) THEN InvalidUrl
    ELSE ParseFromPath(text, protocol, c + 3, FirstOf(text, {"/", "?", "#"}, c + 3))

ParseWithSchemeEnd(text, c) ==
    IF c = 0 THEN InvalidUrl ELSE ParseFromScheme(text, c, ToLowerCase(Slice(text, 1, c)))

ParseUrl(text) == ParseWithSchemeEnd(text, SchemeEnd(text))

\* URL.prototype.toString(): the serialisation of a parsed URL.
Href(u) ==
    u.protocol \o (IF IsSpecial(u.protocol) THEN <<"/", "/">> ELSE <<>>)
      \o u.hostname \o u.pathname \o u.search \o u.hash

\* Splits s at every occurrence of the one-character separator.
SplitAt(s, i) == <<Slice(s, 1, i - 1), Slice(s, i + 1, Len(s))>>

RECURSIVE SplitOn(_, _)
SplitOn(s, sep) ==
    IF IndexOf(s, <<sep>>) = 0 THEN <<s>>
    ELSE <<SplitAt(s, IndexOf(s, <<sep>>))[1]>>
           \o SplitOn(SplitAt(s, IndexOf(s, <<sep>>))[2], sep)

\* The value of one "name=value" part of a query.
ParamValue(part) ==
    IF IndexOf(part, <<"=">>) = 0 THEN <<>>
    ELSE Slice(part, IndexOf(part, <<"=">>) + 1, Len(part))

\* The values of URLSearchParams.entries(): the text after the first "=" of
\* every non-empty "&"-separated part of the query.
SearchParamValues(u) ==
    {ParamValue(part) : part \in Range(SplitOn(Slice(u.search, 2, Len(u.search)), "&")) \ {<<>>}}

(***************************************************************************)
(* The URL filter.                                                         *)
(***************************************************************************)
\* Common paths to exclude by default.
DEFAULT_EXCLUDED_PATHS ==
    << <<"/", "a", "d", "m", "i", "n">>, <<"/", "l", "o", "g", "i", "n">>, <<"/", "l", "o", "g", "o", "u", "t">>, <<"/", "s", "i", "g", "n", "i", "n">>, <<"/", "s", "i", "g", "n", "o", "u", "t">>,
       <<"/", "r", "e", "g", "i", "s", "t", "e", "r">>, <<"/", "a", "c", "c", "o", "u", "n", "t">>, <<"/", "w", "p", "-", "a", "d", "m", "i", "n">>, <<"/", "w", "p", "-", "l", "o", "g", "i", "n">>, <<"/", "c", "a", "r", "t">>,
       <<"/", "c", "h", "e", "c", "k", "o", "u", "t">> >>

\* A field of a Filter: absent, one string, or an array of strings.
Absent == [kind |-> "none", v |-> <<>>]

Str(s) == [kind |-> "str", v |-> s]

Arr(a) == [kind |-> "arr", v |-> a]

\* JavaScript truthiness of a field: undefined and "" are falsy, every array is truthy.
Truthy(f) == f.kind = "arr" \/ (f.kind = "str" /\ f.v # <<>>)

NoFilters == [kind |-> "none", v |-> <<>>]

NoBaseUrl == [kind |-> "none", v |-> <<>>]

\* Whether url holds targetUrl in a query-parameter value or in its hash.
InQueryOrHash(parsedUrl, targetUrl) ==
    IF ~parsedUrl.ok THEN FALSE    \* new URL threw: the catch returns false
    ELSE \/ \E value \in SearchParamValues(parsedUrl) : Includes(value, targetUrl)
         \/ (parsedUrl.hash # <<>> /\ Includes(parsedUrl.hash, targetUrl))

isUrlInQueryParams(url, targetUrl) ==
    IF url = targetUrl THEN FALSE ELSE InQueryOrHash(ParseUrl(url), targetUrl)

\* new RegExp(pattern).test(text) for patterns made of literal characters, the
\* wildcard ".", a leading "^" and a trailing "$".  A pattern holding "(" is
\* the malformed pattern: new RegExp throws a SyntaxError ("throw").
RegExpTest(pattern, text) ==
    LET anchoredStart == Len(pattern) > 0 /\ pattern[1] = "^"
        anchoredEnd == Len(pattern) > 0 /\ pattern[Len(pattern)] = "$"
        body == Slice(pattern, IF anchoredStart THEN 2 ELSE 1,
                      IF anchoredEnd THEN Len(pattern) - 1 ELSE Len(pattern))
        MatchAt(i) == /\ i + Len(body) - 1 <= Len(text)
                      /\ \A k \in 1..Len(body) :
                            body[k] = "." \/ body[k] = text[i + k - 1]
                      /\ anchoredEnd => i + Len(body) - 1 = Len(text)
        starts == IF anchoredStart THEN {1} ELSE 1..(Len(text) + 1)
    IN  IF "(" \in Range(pattern) THEN "throw"
        ELSE IF \E i \in starts : MatchAt(i) THEN "true" ELSE "false"

\* patterns.some(pattern => new RegExp(pattern).test(text)): stops at the first
\* match, throws at the first malformed pattern reached before one.
RECURSIVE SomeRegExp(_, _)
SomeRegExp(patterns, text) ==
    IF patterns = <<>> THEN "false"
    ELSE IF RegExpTest(Head(patterns), text) = "false"
    THEN SomeRegExp(Tail(patterns), text)
    ELSE RegExpTest(Head(patterns), text)

\* The evaluation of one Filter against the parsed URL: "true" when every
\* present field matches, "false" at the first that does not (the later
\* fields are then not evaluated), "throw" when a regex reached is malformed.
ConditionMatches(filter, url, hostname, pathname) ==
    LET domainOk ==
            IF ~Truthy(filter.domain) THEN TRUE
            ELSE IF filter.domain.kind = "arr"
                 THEN \E d \in Range(filter.domain.v) : Includes(hostname, d)
                 ELSE Includes(hostname, filter.domain.v)
        pathOk ==
            IF ~Truthy(filter.pathPrefix) THEN TRUE
            ELSE IF filter.pathPrefix.kind = "arr"
                 THEN \E p \in Range(filter.pathPrefix.v) : StartsWith(pathname, p)
                 ELSE StartsWith(pathname, filter.pathPrefix.v)
        regexRes ==
            IF ~Truthy(filter.regex) THEN "true"
            ELSE IF filter.regex.kind = "arr" THEN SomeRegExp(filter.regex.v, url)
                 ELSE RegExpTest(filter.regex.v, url)
        keywordsOk ==
            IF ~Truthy(filter.keywords) THEN TRUE
            ELSE IF filter.keywords.kind = "arr"
                 THEN \E k \in Range(filter.keywords.v) : Includes(url, k)
                 ELSE Includes(url, filter.keywords.v)
    IN  IF ~domainOk THEN "false"
        ELSE IF ~pathOk THEN "false"
        ELSE IF regexRes # "true" THEN regexRes
        ELSE IF keywordsOk THEN "true" ELSE "false"

\* The loop over the filter conditions: true at the first condition that
\* matches; an exception thrown on the way is caught by isUrlAllowed.
RECURSIVE AnyConditionMatches(_, _, _, _)
AnyConditionMatches(filters, url, hostname, pathname) ==
    IF filters = <<>> THEN "false"
    ELSE IF ConditionMatches(Head(filters), url, hostname, pathname) = "false"
    THEN AnyConditionMatches(Tail(filters), url, hostname, pathname)
    ELSE ConditionMatches(Head(filters), url, hostname, pathname)

\* Checks if a URL matches any of the filter conditions.  filters is NoFilters
\* (undefined) or Arr of Filter records; baseUrl is NoBaseUrl or Str.
\* The default exclusions consulted only when no condition is given.
AllowedParsedConditionsFirst(url, parsedUrl, filters, baseUrl) ==
    IF ~parsedUrl.ok THEN FALSE
    ELSE IF Truthy(baseUrl) /\ isUrlInQueryParams(url, baseUrl.v) THEN FALSE
    ELSE IF filters.kind = "none" \/ Len(filters.v) = 0
    THEN ~\E i \in 1..Len(DEFAULT_EXCLUDED_PATHS) :
             Includes(parsedUrl.pathname, DEFAULT_EXCLUDED_PATHS[i])
    ELSE AnyConditionMatches(filters.v, url, parsedUrl.hostname,
                             parsedUrl.pathname) = "true"

AllowedParsed(url, parsedUrl, filters, baseUrl) ==
    IF ~parsedUrl.ok THEN FALSE    \* new URL threw: the catch returns false
    ELSE IF \E i \in 1..Len(DEFAULT_EXCLUDED_PATHS) :
                Includes(parsedUrl.pathname, DEFAULT_EXCLUDED_PATHS[i])
    THEN FALSE
    ELSE IF Truthy(baseUrl) /\ isUrlInQueryParams(url, baseUrl.v) THEN FALSE
    ELSE IF filters.kind = "none" \/ Len(filters.v) = 0 THEN TRUE
    ELSE AnyConditionMatches(filters.v, url, parsedUrl.hostname,
                             parsedUrl.pathname) = "true"

isUrlAllowed(url, filters, baseUrl) == AllowedParsed(url, ParseUrl(url), filters, baseUrl)

(***************************************************************************)
(* The link extractor.  A parsed document ($ = cheerio.load(html)) is the  *)
(* sequence of its elements in document order, each with its tag, class,   *)
(* href attribute (Absent when it has none) and the index of its parent    *)
(* element (0 for a child of the root).  A selector is its text; the       *)
(* selector engine covers "tag", ".class", "tag.class" and one descendant  *)
(* combinator "X Y"; a selector text holding "(" is a syntax error.        *)
(***************************************************************************)
Node(tag, class, href, parent) ==
    [tag |-> tag, class |-> class, href |-> href, parent |-> parent]

RECURSIVE Ancestors(_, _)
Ancestors(doc, i) ==
    IF doc[i].parent = 0 THEN {}
    ELSE {doc[i].parent} \cup Ancestors(doc, doc[i].parent)

\* Whether element i matches the simple selector "tag", ".class" or "tag.class",
\* dot being the position of its "." (0 when it has none).
MatchesAt(doc, i, sel, dot) ==
    IF dot = 0 THEN doc[i].tag = sel
    ELSE /\ dot > 1 => doc[i].tag = Slice(sel, 1, dot - 1)
         /\ doc[i].class = Slice(sel, dot + 1, Len(sel))

MatchesSimple(doc, i, sel) == MatchesAt(doc, i, sel, IndexOf(sel, <<".">>))

\* $(selector): the indices of the matching elements; sp is the position of
\* the descendant combinator (0 when the selector has none).
SelectAt(doc, selector, sp) ==
    IF sp = 0
    THEN {i \in 1..Len(doc) : MatchesSimple(doc, i, selector)}
    ELSE {i \in 1..Len(doc) :
            /\ MatchesSimple(doc, i, Slice(selector, sp + 1, Len(selector)))
            /\ \E j \in Ancestors(doc, i) :
                  MatchesSimple(doc, j, Slice(selector, 1, sp - 1))}

Select(doc, selector) == SelectAt(doc, selector, IndexOf(selector, <<" ">>))

SelectorThrows(selector) == "(" \in Range(selector)

\* A document nested deeper than the recursion of the parsing library can
\* go is one node with this tag: cheerio.load or a query on it throws.
TooDeep == <<"#", "d", "e", "e", "p">>

LoadThrows(doc) == \E i \in 1..Len(doc) : doc[i].tag = TooDeep

\* selected.find('a[href]'): the anchors with an href below the selected elements.
FindAnchors(doc, selected) ==
    {i \in 1..Len(doc) : /\ doc[i].tag = <<"a">>
                         /\ doc[i].href.kind # "none"
                         /\ Ancestors(doc, i) \cap selected # {}}

\* $('a[href], link[href]')
AllLinkElements(doc) ==
    {i \in 1..Len(doc) : /\ doc[i].tag \in {<<"a">>, <<"l", "i", "n", "k">>}
                         /\ doc[i].href.kind # "none"}

\* The element branch: the anchors below $(element), or every link when
\* nothing matches the tag.
ByElement(doc, selectedElements) ==
    IF selectedElements # {} THEN FindAnchors(doc, selectedElements)
    ELSE AllLinkElements(doc)

\* The selector branch without its fall-back to the element and the document.
BySelectorOnly(doc, cssSelector, selectedElements, element) ==
    IF Includes(cssSelector, <<"a">>) \/ Includes(cssSelector, <<"A">>)
    THEN selectedElements
    ELSE FindAnchors(doc, selectedElements)

\* The selector branch, selectedElements being $(cssSelector).
BySelector(doc, cssSelector, selectedElements, element) ==
    IF selectedElements # {}
    THEN IF Includes(cssSelector, <<"a">>) \/ Includes(cssSelector, <<"A">>)
         THEN selectedElements
         ELSE FindAnchors(doc, selectedElements)
    ELSE IF Truthy(element) THEN ByElement(doc, Select(doc, element.v))
    ELSE AllLinkElements(doc)

\* The elements whose href is read, by the priority selector, element, all.
LinkElements(doc, cssSelector, element) ==
    IF Truthy(cssSelector)
    THEN BySelector(doc, cssSelector.v, Select(doc, cssSelector.v), element)
    ELSE IF Truthy(element) THEN ByElement(doc, Select(doc, element.v))
    ELSE AllLinkElements(doc)

\* Determines if a URL is valid (not javascript:, mailto:, tel:, etc.).
isValidUrl(url) ==
    /\ url # <<>>
    /\ \A protocol \in { <<"j", "a", "v", "a", "s", "c", "r", "i", "p", "t", ":">>, <<"m", "a", "i", "l", "t", "o", ":">>, <<"t", "e", "l", ":">>, <<"s", "m", "s", ":">>,
                         <<"f", "i", "l", "e", ":">>, <<"d", "a", "t", "a", ":">> } : ~StartsWith(url, protocol)

\* new URL(relativeUrl, baseUrl).toString(), or NoUrl when new URL throws.
NoUrl == [kind |-> "none", v |-> <<>>]

LastIndexOf(s, c) ==
    LET hits == {i \in 1..Len(s) : s[i] = c}
    IN  IF hits = {} THEN 0 ELSE CHOOSE i \in hits : \A j \in hits : i >= j

\* The text a relative reference stands for against a parsed base.
ResolvedText(relativeUrl, base) ==
    IF StartsWith(relativeUrl, <<"/", "/">>) THEN base.protocol \o relativeUrl
    ELSE IF StartsWith(relativeUrl, <<"/">>)
    THEN base.protocol \o <<"/", "/">> \o base.hostname \o relativeUrl
    ELSE IF StartsWith(relativeUrl, <<"?">>)
    THEN base.protocol \o <<"/", "/">> \o base.hostname \o base.pathname \o relativeUrl
    ELSE IF StartsWith(relativeUrl, <<"#">>)
    THEN base.protocol \o <<"/", "/">> \o base.hostname \o base.pathname \o base.search
           \o relativeUrl
    ELSE base.protocol \o <<"/", "/">> \o base.hostname
           \o Slice(base.pathname, 1, LastIndexOf(base.pathname, "/")) \o relativeUrl

Serialized(url) == IF url.ok THEN Str(Href(url)) ELSE NoUrl

ResolveAgainst(relativeUrl, base) ==
    IF ~(base.ok /\ IsSpecial(base.protocol)) THEN NoUrl
    ELSE Serialized(ParseUrl(ResolvedText(relativeUrl, base)))

resolveUrl(relativeUrl, baseUrl) ==
    IF SchemeEnd(relativeUrl) # 0 THEN Serialized(ParseUrl(relativeUrl))
    ELSE ResolveAgainst(relativeUrl, ParseUrl(baseUrl))

\* links.add(x) on a Set, kept in insertion order.
SetAdd(set, x) == IF x \in Range(set) THEN set ELSE Append(set, x)

\* What one link element adds: its resolved URL, unless the href is empty, has
\* an excluded scheme, does not resolve, or holds the page's URL in its query.
KeptUrlUnchecked(absoluteUrl, baseUrl) ==
    IF absoluteUrl.kind # "none" THEN <<absoluteUrl.v>> ELSE <<>>

KeptUrl(absoluteUrl, baseUrl) ==
    IF absoluteUrl.kind # "none" /\ ~isUrlInQueryParams(absoluteUrl.v, baseUrl)
    THEN <<absoluteUrl.v>> ELSE <<>>

HrefOf(href, baseUrl) ==
    IF Truthy(href) /\ isValidUrl(href.v) THEN KeptUrl(resolveUrl(href.v, baseUrl), baseUrl)
    ELSE <<>>

\* The loop over the link elements in document order.
RECURSIVE CollectHrefs(_, _, _, _)
CollectHrefs(doc, elements, baseUrl, i) ==
    IF i > Len(doc) THEN <<>>
    ELSE (IF i \in elements THEN HrefOf(doc[i].href, baseUrl) ELSE <<>>)
           \o CollectHrefs(doc, elements, baseUrl, i + 1)

RECURSIVE Dedup(_)
Dedup(s) == IF s = <<>> THEN <<>> ELSE SetAdd(Dedup(Slice(s, 1, Len(s) - 1)), s[Len(s)])

\* Extracts links from HTML content: [threw |-> TRUE] when the selector engine
\* throws, else the Set of absolute URLs in insertion order.
extractLinksFromHtml(doc, baseUrl, cssSelector, element) ==
    IF \/ LoadThrows(doc)
       \/ (Truthy(cssSelector) /\ SelectorThrows(cssSelector.v))
       \/ (Truthy(element) /\ (~Truthy(cssSelector) \/ Select(doc, cssSelector.v) = {})
             /\ SelectorThrows(element.v))
    THEN [threw |-> TRUE, links |-> <<>>]
    ELSE [threw |-> FALSE,
          links |-> Dedup(CollectHrefs(doc, LinkElements(doc, cssSelector, element),
                                       baseUrl, 1))]

(***************************************************************************)
(* The fetcher.  A response of the network to one request is a transport   *)
(* error (fetch rejects) or an HTTP response with its ok flag, its         *)
(* Content-Type, its body (a document) and its URL after redirects.        *)
(***************************************************************************)
NetworkError == [kind |-> "error", ok |-> FALSE, contentType |-> Absent,
                 body |-> <<>>, url |-> <<>>]

HttpResponse(ok, contentType, body, url) ==
    [kind |-> "http", ok |-> ok, contentType |-> contentType, body |-> body, url |-> url]

Null == [null |-> TRUE, html |-> <<>>, finalUrl |-> <<>>]

\* The checks before the delay and the request: a blank URL, a URL new URL()
\* rejects and a protocol other than http and https make fetchUrlContent
\* return null at once.
ValidatedParsed(url, parsedUrl) ==
    Trim(url) # <<>> /\ parsedUrl.ok /\ parsedUrl.protocol \in { <<"h", "t", "t", "p", ":">>, <<"h", "t", "t", "p", "s", ":">> }

\* Without the checks: every URL goes to the delay and the request.
ValidatedAlways(url) == TRUE

Validated(url) == ValidatedParsed(url, ParseUrl(url))

\* Without the check of the body.
IsBlankNever(html) == FALSE

\* html.trim().length === 0.  The text of a response is the document it
\* parses to; the text that is empty or white space is the one without any
\* node (a text without elements has its text node).
IsBlank(html) == html = <<>>

\* contentType && contentType.toLowerCase().includes('text/html')
IsHtml(contentType) ==
    Truthy(contentType) /\ Includes(ToLowerCase(contentType.v), <<"t", "e", "x", "t", "/", "h", "t", "m", "l">>)

\* What fetchUrlContent resolves to for the response to its request: Null, or
\* html and finalUrl.
fetchUrlContent(response) ==
    IF response.kind = "error" THEN Null      \* fetch rejects: the catch
    ELSE IF ~response.ok THEN Null
    ELSE IF ~IsHtml(response.contentType) THEN Null
    ELSE IF IsBlank(response.body) THEN Null
    ELSE [null |-> FALSE, html |-> response.body, finalUrl |-> response.url]

(***************************************************************************)
(* The inputs of a crawl: the URLs, the documents the network serves, and  *)
(* the parameters collectWebLinks is called with.                          *)
(***************************************************************************)
UrlA == <<"h", "t", "t", "p", ":", "/", "/", "a", "/">>

UrlANoSlash == <<"h", "t", "t", "p", ":", "/", "/", "a">>

UrlP == <<"h", "t", "t", "p", ":", "/", "/", "a", "/", "p">>

UrlQ == <<"h", "t", "t", "p", ":", "/", "/", "a", "/", "q">>

UrlR == <<"h", "t", "t", "p", ":", "/", "/", "a", "/", "r">>

UrlB == <<"h", "t", "t", "p", ":", "/", "/", "b", "/">>

UrlLogin == <<"h", "t", "t", "p", ":", "/", "/", "a", "/", "l", "o", "g", "i", "n">>

NotAUrl == <<"x">>

EmptyUrl == <<>>

BlankUrl == <<" ", " ">>

UrlASpaced == <<" ">> \o UrlA \o <<" ">>

\* The home page: a container with two links, a link to another host, a
\* default-excluded path, a share link of the page itself, a mailto link,
\* and a <link> repeating the first link.
DocHome ==
    << Node(<<"d", "i", "v">>, <<"m">>, Absent, 0),
       Node(<<"a">>, <<>>, Str(<<"/", "p">>), 1),
       Node(<<"a">>, <<>>, Str(<<"h", "t", "t", "p", ":", "/", "/", "a", "/", "q">>), 1),
       Node(<<"a">>, <<>>, Str(<<"h", "t", "t", "p", ":", "/", "/", "b", "/">>), 0),
       Node(<<"a">>, <<>>, Str(<<"/", "l", "o", "g", "i", "n">>), 0),
       Node(<<"a">>, <<>>, Str(<<"h", "t", "t", "p", ":", "/", "/", "b", "/", "s", "?", "u", "=", "h", "t", "t", "p", ":", "/", "/", "a", "/">>), 0),
       Node(<<"a">>, <<>>, Str(<<"m", "a", "i", "l", "t", "o", ":", "m">>), 0),
       Node(<<"l", "i", "n", "k">>, <<>>, Str(<<"/", "p">>), 0) >>

DocP == << Node(<<"a">>, <<>>, Str(<<"/", "q">>), 0), Node(<<"a">>, <<>>, Str(<<"/">>), 0) >>

DocQ == << Node(<<"d", "i", "v">>, <<"m">>, Absent, 0),
           Node(<<"a">>, <<>>, Str(<<"h", "t", "t", "p", ":", "/", "/", "b", "/">>), 0),
           Node(<<"a">>, <<>>, Str(<<"/", "p">>), 1) >>

DocB == << Node(<<"a">>, <<>>, Str(<<"h", "t", "t", "p", ":", "/", "/", "a", "/", "p">>), 0) >>

\* The pages of the web "diamond": the home page links to /p and to /q, /p
\* links to /q, and /q is the only page that links to /r.
DocTop == << Node(<<"a">>, <<>>, Str(<<"/", "p">>), 0), Node(<<"a">>, <<>>, Str(<<"/", "q">>), 0) >>

DocViaP == << Node(<<"a">>, <<>>, Str(<<"/", "q">>), 0) >>

DocLeaf == << Node(<<"a">>, <<>>, Str(<<"/", "r">>), 0) >>

\* A page the parsing library cannot handle.
DocDeep == << Node(TooDeep, <<>>, Absent, 0), Node(<<"a">>, <<>>, Str(<<"/", "q">>), 1) >>

\* Page n of the chain links to page n + 1.
Digit == <<"1", "2", "3", "4", "5", "6", "7", "8", "9">>

ChainLength == 7

ChainUrl(n) == <<"h", "t", "t", "p", ":", "/", "/", "a", "/">> \o <<Digit[n]>>

DocChain(n) == << Node(<<"a">>, <<>>, Str(<<"/", Digit[n]>>), 0) >>

Html == Str(<<"t", "e", "x", "t", "/", "h", "t", "m", "l">>)

\* The responses the network may give to a GET of url.  Web "site" is a
\* small site with a cycle, shared links and a redirect; web "diamond" is a
\* site whose pages are always served, with two paths to /q; web "chain" is a
\* chain of pages longer than the depth cap.
ChainIndex(page) ==
    IF \E k \in 1..ChainLength : page = <<Digit[k]>>
    THEN CHOOSE k \in 1..ChainLength : page = <<Digit[k]>>
    ELSE 0

ChainResponses(u, page) ==
    IF u.hostname = <<"a">> /\ (page = <<>> \/ ChainIndex(page) \in 1..(ChainLength - 1))
    THEN {NetworkError, HttpResponse(TRUE, Html, DocChain(ChainIndex(page) + 1), Href(u))}
    ELSE {HttpResponse(FALSE, Html, <<>>, Href(u))}

SiteResponses(href) ==
    CASE href = UrlA -> {NetworkError, HttpResponse(TRUE, Html, DocHome, UrlA)}
      [] href = UrlP -> {HttpResponse(FALSE, Html, <<>>, UrlP),
                         HttpResponse(TRUE, Html, DocP, UrlP),
                         HttpResponse(TRUE, Html, DocDeep, UrlP)}
      [] href = UrlQ -> {HttpResponse(TRUE, Str(<<"t", "e", "x", "t", "/", "c", "s", "s">>), DocQ, UrlQ),
                         HttpResponse(TRUE, Html, DocQ, UrlQ),
                         HttpResponse(TRUE, Html, DocQ, UrlR)}   \* redirected to /r
      [] href = UrlB -> {HttpResponse(TRUE, Absent, DocB, UrlB),
                         HttpResponse(TRUE, Html, <<>>, UrlB),     \* empty body
                         HttpResponse(TRUE, Str(<<"T", "e", "x", "t", "/", "H", "T", "M", "L", ";", " ", "c", "h", "a", "r", "s", "e", "t", "=", "u", "t", "f", "-", "8">>), DocB, UrlB),
                         HttpResponse(TRUE, Html, DocB, UrlB)}
      [] OTHER -> {HttpResponse(FALSE, Html, <<>>, href)}

DiamondResponses(href) ==
    CASE href = UrlA -> {HttpResponse(TRUE, Html, DocTop, UrlA)}
      [] href = UrlP -> {HttpResponse(TRUE, Html, DocViaP, UrlP)}
      [] href = UrlQ -> {HttpResponse(TRUE, Html, DocLeaf, UrlQ)}
      [] OTHER -> {HttpResponse(FALSE, Html, <<>>, href)}

ResponsesTo(w, u) ==
    IF ~(u.ok /\ u.protocol = <<"h", "t", "t", "p", ":">>) THEN {NetworkError}  \* fetch() rejects
    ELSE IF w = "chain" THEN ChainResponses(u, Slice(u.pathname, 2, Len(u.pathname)))
    ELSE IF w = "diamond" THEN DiamondResponses(Href(u))
    ELSE SiteResponses(Href(u))

Responses(w, url) == ResponsesTo(w, ParseUrl(url))

Webs == {"site", "chain", "diamond"}

InitialUrls == {UrlA, UrlANoSlash, UrlLogin, NotAUrl, EmptyUrl, BlankUrl, UrlASpaced}

MaxRequestedDepth == 6

Filter(domain, pathPrefix, regex, keywords) ==
    [domain |-> domain, pathPrefix |-> pathPrefix, regex |-> regex, keywords |-> keywords]

FilterChoices ==
    { NoFilters,
      Arr(<< Filter(Str(<<"a">>), Absent, Absent, Absent) >>),
      Arr(<< Filter(Absent, Arr(<< <<"/", "p">>, <<"/", "1">> >>), Absent, Absent),
             Filter(Absent, Absent, Str(<<"^", "h", "t", "t", "p", ":", "/", "/", "a", "/", ".", "$">>), Str(<<"2">>)) >>),
      Arr(<< Filter(Absent, Absent, Str(<<"(">>), Absent) >>) }   \* not a pattern

\* selector and element as passed by the caller.
ScopeChoices ==
    { [selector |-> Absent, element |-> Absent],
      [selector |-> Str(<<".", "m">>), element |-> Absent],
      [selector |-> Str(<<"n", "a", "v">>), element |-> Str(<<"d", "i", "v">>)],
      [selector |-> Str(<<"a", "(">>), element |-> Absent] }   \* not a selector

DelayChoices == {-1, 0, 1000}

\* Every URL string a crawl of these webs can come across.
Urls ==
    {Trim(u) : u \in InitialUrls} \cup {UrlA, UrlP, UrlQ, UrlR, UrlB, UrlLogin}
                \cup {ChainUrl(n) : n \in 1..ChainLength}

\* The scope of the initial page, and the one of every other page.
NoScope == [selector |-> Absent, element |-> Absent]

(***************************************************************************)
(* The functions the crawl calls are pure: they are tabulated once over    *)
(* the inputs these webs can give them, and the crawl reads the tables.    *)
(***************************************************************************)
Trimmed == [u \in InitialUrls |-> Trim(u)]

Network == [w \in Webs |-> [url \in Urls |-> Responses(w, url)]]

AllResponses == UNION {Network[w][url] : w \in Webs, url \in Urls}

ValidUrl == [url \in Urls |-> Validated(url)]

FetchedContent == [response \in AllResponses |-> fetchUrlContent(response)]

AllFetched == {FetchedContent[response] : response \in AllResponses} \ {Null}

ExtractedLinks ==
    [fetched \in AllFetched |->
        [scope \in ScopeChoices \cup {NoScope} |->
            extractLinksFromHtml(fetched.html, fetched.finalUrl,
                                 scope.selector, scope.element)]]

FilterDecision ==
    [url \in Urls |-> [filters \in FilterChoices |->
                          isUrlAllowed(url, filters, NoBaseUrl)]]

(***************************************************************************)
(* collectWebLinks.  The recursion of collectLinks is the stack of its     *)
(* activations; an activation is at "enter" (called), "check" (after the   *)
(* delay before processing), "waiting" (in the delay of fetchUrlContent),  *)
(* "fetching" (the request is in flight) or "loop" (in the for loop over   *)
(* the extracted links).  Time is the clock now, in milliseconds: a delay  *)
(* of n ms advances it by n, which is the least it can take.               *)
(***************************************************************************)
VARIABLES
    params,            \* initialUrl, depth, filters, selector, element, delayMs
    web,               \* which web the network serves
    phase,             \* "ready", "running", "done", "rejected"; "idle": no crawl
    stack,             \* the activations of collectLinks, innermost last
    visitedUrls,       \* Set<string>
    allCollectedUrls,  \* Set<string>, in insertion order
    linkRelationships, \* LinkRelationship[]
    errors,            \* ErrorEntry[]
    stats,             \* Stats
    result,            \* <<>> until collectWebLinks returns, then <<CollectionResult>>
    fetchLog,          \* the calls of fetchUrlContent, in order, and what came of each
    now,               \* Date.now()
    call,              \* the function called on its own, with its arguments
    returned           \* <<>> until that function returns, then <<its value>>

vars == <<params, web, phase, stack, visitedUrls, allCollectedUrls,
          linkRelationships, errors, stats, result, fetchLog, now, call, returned>>

\* A time stamp; the '' of a time not yet taken is Str(<<>>).
Time(t) == [kind |-> "time", v |-> t]

NoCall == [fn |-> "none"]

\* Mutant of maxDepth: the cap is forgotten.
maxDepthUncapped == params.depth

\* Maximum recursion depth (cap at 5).
MaxDepthCap == 5

maxDepth == Min(params.depth, MaxDepthCap)

\* The data structures of collectWebLinks as constructed.
Fresh ==
    /\ stack = <<>>
    /\ visitedUrls = {}
    /\ allCollectedUrls = <<>>
    /\ linkRelationships = <<>>
    /\ errors = <<>>
    /\ stats = [startTime |-> Str(<<>>), endTime |-> Str(<<>>), durationMs |-> 0,
                totalUrlsScanned |-> 0, totalUrlsCollected |-> 0, maxDepthReached |-> 0]
    /\ result = <<>>
    /\ fetchLog = <<>>
    /\ now = 0

\* A call collectLinks(initialUrl, {depth, filters, selector, element, delayMs}).
Init ==
    /\ params \in [initialUrl : InitialUrls,
                   depth : (-1)..MaxRequestedDepth,
                   filters : FilterChoices,
                   scope : ScopeChoices,
                   delayMs : DelayChoices]
    /\ web \in Webs
    /\ phase = "ready"
    /\ Fresh
    /\ call = NoCall
    /\ returned = <<>>

\* A call of collectLinks, made at the time now.
Activation(url, currentDepth, sourceUrl) ==
    [url |-> url, currentDepth |-> currentDepth, sourceUrl |-> sourceUrl,
     pc |-> "enter", links |-> <<>>, finalUrl |-> <<>>, enteredAt |-> now]

Top == stack[Len(stack)]

Return == SubSeq(stack, 1, Len(stack) - 1)

SetTop(f) == [stack EXCEPT ![Len(stack)] = f]

\* !initialUrl?.trim() or options.depth < 0: collectLinks of index.ts throws.
InputError == Trimmed[params.initialUrl] = <<>> \/ params.depth < 0

\* collectLinks of index.ts: it throws, or it calls collectWebLinks with the
\* trimmed URL, which runs up to await collectLinks(initialUrl, 0, null).
StartCollection ==
    /\ phase = "ready"
    /\ IF InputError
       THEN /\ phase' = "rejected"
            /\ UNCHANGED <<params, stack, stats>>
       ELSE /\ phase' = "running"
            /\ params' = [params EXCEPT !.initialUrl = Trimmed[@]]
            /\ stats' = [stats EXCEPT !.startTime = Time(now)]
            /\ stack' = <<Activation(Trimmed[params.initialUrl], 0, NoUrl)>>
    /\ UNCHANGED <<web, visitedUrls, allCollectedUrls, linkRelationships,
                   errors, result, fetchLog>>
    /\ UNCHANGED <<now, call, returned>>

\* The delay before processing a link.
NeedsDelay(currentDepth) == currentDepth > 0 /\ maxDepth > 1 /\ params.delayMs > 0

ApplyDelay ==
    /\ phase = "running" /\ stack # <<>>
    /\ Top.pc = "enter"
    /\ NeedsDelay(Top.currentDepth)
    /\ stack' = SetTop([Top EXCEPT !.pc = "check"])
    /\ now' = now + params.delayMs
    /\ UNCHANGED <<params, web, phase, visitedUrls, allCollectedUrls,
                   linkRelationships, errors, stats, result, fetchLog>>
    /\ UNCHANGED <<call, returned>>

\* Mutant of AlreadyVisited: the visited check is lost.
AlreadyVisitedNever(url) == FALSE

\* Skip if we've already visited this URL.
AlreadyVisited(url) == url \in visitedUrls

\* Mutant of AllowedByFilter: the filter is applied to the initial URL too.
AllowedByFilterAtEveryDepth(url, currentDepth) ==
    FilterDecision[url][params.filters]

\* Mutant of AllowedByFilter: the filter is never consulted.
AllowedByFilterUnfiltered(url, currentDepth) == TRUE

\* Only apply filter if not the initial URL.
AllowedByFilter(url, currentDepth) ==
    IF currentDepth > 0 THEN FilterDecision[url][params.filters] ELSE TRUE

\* Mutant of CountScanned: the increment is lost.
CountScannedForgotten(s) == s

\* stats.totalUrlsScanned++
CountScanned(s) == [s EXCEPT !.totalUrlsScanned = @ + 1]

\* Mutant of CollectUrl: the URL is put before those collected so far.
CollectUrlAtFront(allowedByFilter, url) ==
    IF allowedByFilter /\ url \notin Range(allCollectedUrls)
    THEN <<url>> \o allCollectedUrls
    ELSE allCollectedUrls

\* allCollectedUrls.add(url) when the URL is allowed.
CollectUrl(allowedByFilter, url) ==
    IF allowedByFilter THEN SetAdd(allCollectedUrls, url) ELSE allCollectedUrls

\* Mutant of CountCollected: maxDepthReached is the depth of the last URL.
CountCollectedLastDepth(s, allowedByFilter, currentDepth) ==
    IF allowedByFilter
    THEN [s EXCEPT !.totalUrlsCollected = @ + 1, !.maxDepthReached = currentDepth]
    ELSE s

\* stats.totalUrlsCollected++ and the update of maxDepthReached, when allowed.
CountCollected(s, allowedByFilter, currentDepth) ==
    IF allowedByFilter
    THEN [s EXCEPT !.totalUrlsCollected = @ + 1,
                   !.maxDepthReached = Max(@, currentDepth)]
    ELSE s

\* Mutant of RecordRelationship: recorded before the filter decision is used.
RecordRelationshipUnfiltered(allowedByFilter, sourceUrl, url) ==
    IF Truthy(sourceUrl)
    THEN Append(linkRelationships, [source |-> sourceUrl.v, found |-> url])
    ELSE linkRelationships

\* Mutant of RecordRelationship: source and found are swapped.
RecordRelationshipSwapped(allowedByFilter, sourceUrl, url) ==
    IF allowedByFilter /\ Truthy(sourceUrl)
    THEN Append(linkRelationships, [source |-> url, found |-> sourceUrl.v])
    ELSE linkRelationships

\* Record link relationship if the URL is allowed and there's a source.
RecordRelationship(allowedByFilter, sourceUrl, url) ==
    IF allowedByFilter /\ Truthy(sourceUrl)
    THEN Append(linkRelationships, [source |-> sourceUrl.v, found |-> url])
    ELSE linkRelationships

\* Mutant of DepthLimitReached: off by one.
DepthLimitOffByOne(currentDepth) == currentDepth > maxDepth

\* Stop recursion if we've reached the maximum depth.
DepthLimitReached(currentDepth) == currentDepth >= maxDepth

\* Mutant of FetcherWaits: the fetcher never waits.
FetcherWaitsNever(delayMs) == FALSE

\* Implement delay if specified (for rate limiting).
FetcherWaits(delayMs) == delayMs > 0

\* One call of fetchUrlContent, not yet resolved; without a delay the request
\* is issued in the call.
FetchCall(url, currentDepth, delayMs) ==
    [url |-> url, currentDepth |-> currentDepth, outcome |-> "pending",
     finalUrl |-> <<>>, links |-> <<>>, found |-> <<>>,
     calledAt |-> now, issued |-> ~FetcherWaits(delayMs), issuedAt |-> now]

\* A call fetchUrlContent answers with null before any delay or request.
RefusedCall(url, currentDepth) ==
    [url |-> url, currentDepth |-> currentDepth, outcome |-> "null",
     finalUrl |-> <<>>, links |-> <<>>, found |-> <<>>,
     calledAt |-> now, issued |-> FALSE, issuedAt |-> now]

\* The caller of the innermost activation.
Caller == stack[Len(stack) - 1]

\* The log, in which the page whose loop made this call has the URL among
\* those collected from it (found), when the URL is collected.
FoundNoted(allowedByFilter, url) ==
    IF allowedByFilter /\ Len(stack) > 1
    THEN [fetchLog EXCEPT
            ![CHOOSE i \in 1..Len(fetchLog) : fetchLog[i].url = Caller.url].found =
                Append(@, url)]
    ELSE fetchLog

\* The call of fetchUrlContent and, when it resolves without suspending, the
\* FetchError of its null.
CallFetcher(url, currentDepth, log) ==
    IF ValidUrl[url]
    THEN /\ stack' = SetTop([Top EXCEPT !.pc = IF FetcherWaits(params.delayMs)
                                                THEN "waiting" ELSE "fetching"])
         /\ fetchLog' = Append(log, FetchCall(url, currentDepth, params.delayMs))
         /\ UNCHANGED errors
    ELSE /\ stack' = Return
         /\ fetchLog' = Append(log, RefusedCall(url, currentDepth))
         /\ errors' = Append(errors, [url |-> url, errorType |-> "FetchError"])

\* collectLinks for a URL not visited before, allowedByFilter being the
\* filter's decision: mark, count, record, and fetch unless filtered out or at
\* the maximum depth.
VisitNew(url, currentDepth, sourceUrl, allowedByFilter) ==
    /\ visitedUrls' = visitedUrls \cup {url}
    /\ stats' = CountCollected(CountScanned(stats), allowedByFilter, currentDepth)
    /\ allCollectedUrls' = CollectUrl(allowedByFilter, url)
    /\ linkRelationships' = RecordRelationship(allowedByFilter, sourceUrl, url)
    /\ IF allowedByFilter /\ ~DepthLimitReached(currentDepth)
       THEN CallFetcher(url, currentDepth, FoundNoted(allowedByFilter, url))
       ELSE /\ stack' = Return
            /\ fetchLog' = FoundNoted(allowedByFilter, url)
            /\ UNCHANGED errors

\* The synchronous part of collectLinks from the visited check to the call of
\* fetchUrlContent, which suspends unless it refuses the URL.
Visit ==
    /\ phase = "running" /\ stack # <<>>
    /\ \/ Top.pc = "check"
       \/ Top.pc = "enter" /\ ~NeedsDelay(Top.currentDepth)
    /\ IF AlreadyVisited(Top.url)
       THEN /\ stack' = Return
            /\ UNCHANGED <<visitedUrls, allCollectedUrls, linkRelationships,
                           stats, fetchLog, errors>>
       ELSE VisitNew(Top.url, Top.currentDepth, Top.sourceUrl,
                     AllowedByFilter(Top.url, Top.currentDepth))
    /\ UNCHANGED <<params, web, phase, result>>
    /\ UNCHANGED <<now, call, returned>>

\* fetchUrlContent: await delay(delayMs, logger), then the request is issued.
FetcherDelay ==
    /\ phase = "running" /\ stack # <<>>
    /\ Top.pc = "waiting"
    /\ now' = now + params.delayMs
    /\ stack' = SetTop([Top EXCEPT !.pc = "fetching"])
    /\ fetchLog' = [fetchLog EXCEPT ![Len(fetchLog)] =
                       [@ EXCEPT !.issued = TRUE, !.issuedAt = now + params.delayMs]]
    /\ UNCHANGED <<params, web, phase, visitedUrls, allCollectedUrls,
                   linkRelationships, errors, stats, result>>
    /\ UNCHANGED <<call, returned>>

\* Mutant of UseScope: the scope of the request is used for every page.
UseScopeAtEveryDepth(currentDepth) == params.scope

\* Use selector and element only for the initial page (depth 0).
UseScope(currentDepth) == IF currentDepth = 0 THEN params.scope ELSE NoScope

\* The entry of the pending call of the innermost activation, resolved.
Resolved(outcome, finalUrl, links) ==
    [fetchLog EXCEPT ![Len(fetchLog)] =
        [@ EXCEPT !.outcome = outcome, !.finalUrl = finalUrl, !.links = links]]

\* Mutant of AfterExtraction: the exception of the extraction is not caught
\* and ends every activation.
AfterExtractionUncaught(finalUrl, extracted) ==
    IF extracted.threw
    THEN /\ stack' = <<>>
         /\ fetchLog' = Resolved("threw", finalUrl, <<>>)
         /\ UNCHANGED errors
    ELSE /\ stack' = SetTop([Top EXCEPT !.pc = "loop", !.links = extracted.links,
                                        !.finalUrl = finalUrl])
         /\ fetchLog' = Resolved("links", finalUrl, extracted.links)
         /\ UNCHANGED errors

\* The try block after a successful fetch: the links are extracted and the
\* loop over them starts; an exception of the extraction is a ParseError.
AfterExtraction(finalUrl, extracted) ==
    IF extracted.threw
    THEN /\ errors' = Append(errors, [url |-> finalUrl, errorType |-> "ParseError"])
         /\ stack' = Return
         /\ fetchLog' = Resolved("threw", finalUrl, <<>>)
    ELSE /\ stack' = SetTop([Top EXCEPT !.pc = "loop", !.links = extracted.links,
                                        !.finalUrl = finalUrl])
         /\ fetchLog' = Resolved("links", finalUrl, extracted.links)
         /\ UNCHANGED errors

\* Mutant of AfterFetch: a failed fetch is not recorded.
AfterFetchUnrecorded(fetched) ==
    IF fetched.null
    THEN /\ stack' = Return
         /\ fetchLog' = Resolved("null", <<>>, <<>>)
         /\ UNCHANGED errors
    ELSE AfterExtraction(fetched.finalUrl,
                         ExtractedLinks[fetched][UseScope(Top.currentDepth)])

\* What collectLinks does with the value fetchUrlContent resolved to.
AfterFetch(fetched) ==
    IF fetched.null
    THEN /\ errors' = Append(errors, [url |-> Top.url, errorType |-> "FetchError"])
         /\ stack' = Return
         /\ fetchLog' = Resolved("null", <<>>, <<>>)
    ELSE AfterExtraction(fetched.finalUrl,
                         ExtractedLinks[fetched][UseScope(Top.currentDepth)])

\* fetchUrlContent resolves, for one of the responses the network may give.
FetchReturns ==
    /\ phase = "running" /\ stack # <<>>
    /\ Top.pc = "fetching"
    /\ \E response \in Network[web][Top.url] : AfterFetch(FetchedContent[response])
    /\ UNCHANGED <<params, web, phase, visitedUrls, allCollectedUrls,
                   linkRelationships, stats, result>>
    /\ UNCHANGED <<now, call, returned>>

\* Mutant of NextLink: the links are taken from the end.
NextLinkFromTheEnd(links) == links[Len(links)]

\* for (const link of links): the next link in the order of the Set.
NextLink(links) == Head(links)

\* for (const link of links) await collectLinks(link, currentDepth + 1, finalUrl)
ProcessNextLink ==
    /\ phase = "running" /\ stack # <<>>
    /\ Top.pc = "loop" /\ Top.links # <<>>
    /\ stack' = Append(SetTop([Top EXCEPT !.links = Tail(@)]),
                       Activation(NextLink(Top.links), Top.currentDepth + 1,
                                  Str(Top.finalUrl)))
    /\ UNCHANGED <<params, web, phase, visitedUrls, allCollectedUrls,
                   linkRelationships, errors, stats, result, fetchLog>>
    /\ UNCHANGED <<now, call, returned>>

\* The for loop ends and the activation returns.
LoopEnds ==
    /\ phase = "running" /\ stack # <<>>
    /\ Top.pc = "loop" /\ Top.links = <<>>
    /\ stack' = Return
    /\ UNCHANGED <<params, web, phase, visitedUrls, allCollectedUrls,
                   linkRelationships, errors, stats, result, fetchLog>>
    /\ UNCHANGED <<now, call, returned>>

\* Calculate duration and complete stats.
CompleteStats(s) ==
    [s EXCEPT !.durationMs = now - s.startTime.v, !.endTime = Time(now)]

\* Prepare and return the final result.
ReturnResult ==
    /\ phase = "running" /\ stack = <<>>
    /\ phase' = "done"
    /\ stats' = CompleteStats(stats)
    /\ result' = << [initialUrl |-> params.initialUrl,
                     depth |-> maxDepth,
                     allCollectedUrls |-> allCollectedUrls,
                     linkRelationships |-> linkRelationships,
                     errors |-> errors,
                     stats |-> CompleteStats(stats)] >>
    /\ UNCHANGED <<params, web, stack, visitedUrls, allCollectedUrls,
                   linkRelationships, errors, fetchLog>>
    /\ UNCHANGED <<now, call, returned>>

Next ==
    \/ StartCollection
    \/ ApplyDelay
    \/ Visit
    \/ FetcherDelay
    \/ FetchReturns
    \/ ProcessNextLink
    \/ LoopEnds
    \/ ReturnResult

Spec == Init /\ [][Next]_vars

\* collectLinks is one chain of awaited promises: every timer fires and,
\* with a network that answers or fails every request, every fetch settles,
\* so a step that can be taken is taken.
FairSpec == Spec /\ WF_vars(Next)

(***************************************************************************)
(* Unexpected exceptions.  No statement of collectLinks outside its try    *)
(* block throws by itself; here the environment makes one throw (a logger  *)
(* call, the timer), before the fetch or right after it resolved.  The     *)
(* exception leaves the activation: in a nested activation it arrives in   *)
(* the try block of the caller, whose loop it ends; from the first         *)
(* activation it arrives in the catch of collectWebLinks.                  *)
(***************************************************************************)
ErrorEntry(url, errorType) == [url |-> url, errorType |-> errorType]

\* Mutant of CatchCollectionError: the exception is swallowed.
CatchCollectionErrorSilently == errors

\* catch (error) { errors.push({url: initialUrl, errorType: 'CollectionError'}) }
CatchCollectionError == Append(errors, ErrorEntry(params.initialUrl, "CollectionError"))

UnexpectedException ==
    /\ phase = "running" /\ stack # <<>>
    /\ Top.pc \in {"enter", "check", "fetching"}
    /\ IF Len(stack) = 1
       THEN /\ errors' = CatchCollectionError
            /\ stack' = <<>>
       ELSE /\ errors' = Append(errors, ErrorEntry(Caller.finalUrl, "ParseError"))
            /\ stack' = SubSeq(stack, 1, Len(stack) - 2)
    /\ fetchLog' = IF Top.pc = "fetching" THEN Resolved("exception", <<>>, <<>>)
                   ELSE fetchLog
    /\ UNCHANGED <<params, web, phase, visitedUrls, allCollectedUrls,
                   linkRelationships, stats, result>>
    /\ UNCHANGED <<now, call, returned>>

NextWithExceptions == Next \/ UnexpectedException

SpecWithExceptions == Init /\ [][NextWithExceptions]_vars

(***************************************************************************)
(* A server that accepts the request and never answers.  fetch is called   *)
(* without a signal and fetchUrlContent starts no timer, so that nothing   *)
(* in the program ends such a request: the activation stays at "fetching". *)
(***************************************************************************)
SilentUrls == {UrlQ}

FetchReturnsUnlessSilent ==
    stack # <<>> /\ Top.url \notin SilentUrls /\ FetchReturns

NextSilentServer ==
    \/ StartCollection
    \/ ApplyDelay
    \/ Visit
    \/ FetcherDelay
    \/ FetchReturnsUnlessSilent
    \/ ProcessNextLink
    \/ LoopEnds
    \/ ReturnResult

\* Every timer fires and every request that is answered returns.
SilentServerSpec ==
    Init /\ [][NextSilentServer]_vars /\ WF_vars(NextSilentServer)

(***************************************************************************)
(* The exported functions called on their own: call holds the function and *)
(* its arguments, returned its value.  No crawl runs meanwhile.            *)
(***************************************************************************)
IdleParams == [initialUrl |-> UrlA, depth |-> 0, filters |-> NoFilters,
               scope |-> NoScope, delayMs |-> 0]

Idle == params = IdleParams /\ web = "site" /\ phase = "idle" /\ Fresh

FilterConditionChoices ==
    { Filter(Str(<<"a">>), Absent, Absent, Absent),
      Filter(Arr(<< <<"c">>, <<"b">> >>), Absent, Absent, Absent),
      Filter(Absent, Arr(<< <<"/", "p">>, <<"/", "1">> >>), Absent, Absent),
      Filter(Absent, Absent, Str(<<"^", "h", "t", "t", "p", ":", "/", "/", "a", "/", ".", "$">>), Str(<<"2">>)),
      Filter(Absent, Absent, Str(<<"(">>), Absent),            \* not a pattern
      Filter(Str(<<"a">>), Str(<<"/", "l", "o">>), Absent, Absent),
      Filter(Str(<<>>), Absent, Absent, Arr(<<>>)) }

\* undefined, [] and the lists of one or two conditions.
FilterLists ==
    {NoFilters, Arr(<<>>)}
       \cup {Arr(<<c>>) : c \in FilterConditionChoices}
       \cup {Arr(<<c, d>>) : c \in FilterConditionChoices, d \in FilterConditionChoices}

FilterUrls == Urls \cup { <<"h", "t", "t", "p", ":", "/", "/", "b", "/", "l", "o", "g", "i", "n">>, <<"h", "t", "t", "p", ":", "/", "/", "c", "/", "p", "?", "a", "=", "2">> }

InitFilter ==
    /\ Idle
    /\ call \in [fn : {"isUrlAllowed"}, url : FilterUrls, filters : FilterLists,
                  baseUrl : {NoBaseUrl, Str(UrlA)}]
    /\ returned = <<>>

CallIsUrlAllowed ==
    /\ call.fn = "isUrlAllowed" /\ returned = <<>>
    /\ returned' = <<isUrlAllowed(call.url, call.filters, call.baseUrl)>>
    /\ UNCHANGED <<params, web, phase, stack, visitedUrls, allCollectedUrls,
                   linkRelationships, errors, stats, result, fetchLog, now, call>>

FilterSpec == InitFilter /\ [][CallIsUrlAllowed]_vars


(***************************************************************************)
(* extractLinksFromHtml called on its own.                                 *)
(***************************************************************************)
\* A page with a container holding a link, a second container, a link and
\* a <link> outside both, a container without any link, two share links
\* (the URL of a page in the fragment, in the second query parameter) and
\* a link to http://a/ itself.
DocScoped ==
    << Node(<<"n", "a", "v">>, <<"m">>, Absent, 0),
       Node(<<"a">>, <<>>, Str(<<"/", "p">>), 1),
       Node(<<"d", "i", "v">>, <<>>, Absent, 0),
       Node(<<"a">>, <<>>, Str(<<"/", "q">>), 3),
       Node(<<"a">>, <<>>, Str(<<"/", "r">>), 0),
       Node(<<"l", "i", "n", "k">>, <<>>, Str(<<"/", "s">>), 0),
       Node(<<"s", "p", "a", "n">>, <<"e">>, Absent, 0),
       Node(<<"a">>, <<>>, Str(<<"h", "t", "t", "p", ":", "/", "/", "b", "/", "#", "h", "t", "t", "p", ":", "/", "/", "a", "/">>), 0),
       Node(<<"a">>, <<>>, Str(<<"h", "t", "t", "p", ":", "/", "/", "b", "/", "s", "?", "t", "=", "1", "&", "u", "=", "h", "t", "t", "p", ":", "/", "/", "a", "/", "d", "/", "e">>), 0),
       Node(<<"a">>, <<>>, Str(<<"h", "t", "t", "p", ":", "/", "/", "a", "/">>), 0) >>

\* A page whose hrefs carry the schemes in either letter case, the same
\* target three times, an empty href, an anchor without href and an href
\* new URL cannot parse.
DocSchemes ==
    << Node(<<"a">>, <<>>, Str(<<"j", "a", "v", "a", "s", "c", "r", "i", "p", "t", ":", "y">>), 0),
       Node(<<"a">>, <<>>, Str(<<"J", "a", "v", "a", "S", "c", "r", "i", "p", "t", ":", "x">>), 0),
       Node(<<"a">>, <<>>, Str(<<"m", "a", "i", "l", "t", "o", ":", "m">>), 0),
       Node(<<"a">>, <<>>, Str(<<"M", "A", "I", "L", "T", "O", ":", "m">>), 0),
       Node(<<"a">>, <<>>, Str(<<"t", "e", "l", ":", "1">>), 0),
       Node(<<"a">>, <<>>, Str(<<"s", "m", "s", ":", "1">>), 0),
       Node(<<"a">>, <<>>, Str(<<"f", "i", "l", "e", ":", "f">>), 0),
       Node(<<"a">>, <<>>, Str(<<"d", "a", "t", "a", ":", "z">>), 0),
       Node(<<"a">>, <<>>, Str(<<"/", "p">>), 0),
       Node(<<"a">>, <<>>, Str(<<"h", "t", "t", "p", ":", "/", "/", "a", "/", "p">>), 0),
       Node(<<"a">>, <<>>, Str(<<"H", "t", "t", "p", ":", "/", "/", "A", "/", "p">>), 0),
       Node(<<"a">>, <<>>, Str(<<"q">>), 0),
       Node(<<"a">>, <<>>, Str(<<>>), 0),
       Node(<<"a">>, <<>>, Absent, 0),
       Node(<<"a">>, <<>>, Str(<<"h", "t", "t", "p", ":", "/", "/">>), 0) >>

ExtractDocs == {DocHome, DocQ, DocScoped, DocSchemes, DocDeep}

SelectorChoices ==
    {Absent, Str(<<>>), Str(<<".", "m">>), Str(<<".", "x">>), Str(<<"s", "p", "a", "n">>), Str(<<"d", "i", "v", " ", "a">>),
     Str(<<"n", "a", "v">>), Str(<<"a", "(">>)}

ElementChoices == {Absent, Str(<<"d", "i", "v">>), Str(<<"u", "l">>), Str(<<"s", "p", "a", "n">>)}

BaseUrlChoices == {UrlA, <<"h", "t", "t", "p", ":", "/", "/", "a", "/", "d", "/", "e">>, NotAUrl}

InitExtract ==
    /\ Idle
    /\ call \in [fn : {"extractLinksFromHtml"}, htmlContent : ExtractDocs,
                  baseUrl : BaseUrlChoices, cssSelector : SelectorChoices,
                  element : ElementChoices]
    /\ returned = <<>>

CallExtractLinksFromHtml ==
    /\ call.fn = "extractLinksFromHtml" /\ returned = <<>>
    /\ returned' = <<extractLinksFromHtml(call.htmlContent, call.baseUrl,
                                          call.cssSelector, call.element)>>
    /\ UNCHANGED <<params, web, phase, stack, visitedUrls, allCollectedUrls,
                   linkRelationships, errors, stats, result, fetchLog, now, call>>

ExtractSpec == InitExtract /\ [][CallExtractLinksFromHtml]_vars

(***************************************************************************)
(* fetchUrlContent called on its own: call.pc is "called", "waiting" (in   *)
(* the delay), "fetching" (the request is in flight) or "done".            *)
(***************************************************************************)
\* A page of text without any element.
DocText == << Node(<<"#", "t", "e", "x", "t">>, <<>>, Absent, 0) >>

FetchUrlChoices ==
    {EmptyUrl, BlankUrl, NotAUrl, <<"f", "t", "p", ":", "/", "/", "a", "/">>, <<"m", "a", "i", "l", "t", "o", ":", "m">>, <<"f", "i", "l", "e", ":", "f">>,
     UrlA, UrlQ, <<"h", "t", "t", "p", "s", ":", "/", "/", "a", "/">>, <<"H", "T", "T", "P", ":", "/", "/", "a", "/">>}

\* What the network may answer to a request of url.
FetcherResponses(url) ==
    {NetworkError,
     HttpResponse(FALSE, Html, DocP, url),
     HttpResponse(TRUE, Absent, DocP, url),
     HttpResponse(TRUE, Str(<<>>), DocP, url),
     HttpResponse(TRUE, Str(<<"t", "e", "x", "t", "/", "c", "s", "s">>), DocP, url),
     HttpResponse(TRUE, Html, <<>>, url),
     HttpResponse(TRUE, Html, DocText, url),
     HttpResponse(TRUE, Html, DocP, url),
     HttpResponse(TRUE, Str(<<"T", "e", "x", "t", "/", "H", "T", "M", "L", ";", " ", "c", "h", "a", "r", "s", "e", "t", "=", "u", "t", "f", "-", "8">>), DocP, url),
     HttpResponse(TRUE, Html, DocQ, UrlR)}

NoResponse == <<>>

InitFetch ==
    /\ Idle
    /\ call \in [fn : {"fetchUrlContent"}, url : FetchUrlChoices,
                  delayMs : DelayChoices, pc : {"called"}, response : {NoResponse}]
    /\ returned = <<>>

\* The call up to its first await, or to its return null.
CallFetchUrlContent ==
    /\ call.fn = "fetchUrlContent" /\ call.pc = "called"
    /\ IF Validated(call.url)
       THEN /\ call' = [call EXCEPT !.pc = IF FetcherWaits(call.delayMs)
                                           THEN "waiting" ELSE "fetching"]
            /\ fetchLog' = Append(fetchLog, FetchCall(call.url, 0, call.delayMs))
            /\ UNCHANGED returned
       ELSE /\ call' = [call EXCEPT !.pc = "done"]
            /\ fetchLog' = Append(fetchLog, RefusedCall(call.url, 0))
            /\ returned' = <<Null>>
    /\ UNCHANGED <<params, web, phase, stack, visitedUrls, allCollectedUrls,
                   linkRelationships, errors, stats, result, now>>

\* await delay(delayMs, logger), then the request is issued.
DelayElapses ==
    /\ call.fn = "fetchUrlContent" /\ call.pc = "waiting"
    /\ now' = now + call.delayMs
    /\ call' = [call EXCEPT !.pc = "fetching"]
    /\ fetchLog' = [fetchLog EXCEPT ![Len(fetchLog)] =
                       [@ EXCEPT !.issued = TRUE, !.issuedAt = now + call.delayMs]]
    /\ UNCHANGED <<params, web, phase, stack, visitedUrls, allCollectedUrls,
                   linkRelationships, errors, stats, result, returned>>

\* The log entry of the call, once it returned fetched.
Answered(fetched) ==
    [fetchLog EXCEPT ![Len(fetchLog)] =
        [@ EXCEPT !.outcome = IF fetched.null THEN "null" ELSE "html",
                  !.finalUrl = fetched.finalUrl]]

\* The request is answered, or fails, and fetchUrlContent returns.
ResponseArrives ==
    /\ call.fn = "fetchUrlContent" /\ call.pc = "fetching"
    /\ \E response \in FetcherResponses(call.url) :
          /\ call' = [call EXCEPT !.pc = "done", !.response = <<response>>]
          /\ returned' = <<fetchUrlContent(response)>>
          /\ fetchLog' = Answered(fetchUrlContent(response))
    /\ UNCHANGED <<params, web, phase, stack, visitedUrls, allCollectedUrls,
                   linkRelationships, errors, stats, result, now>>

NextFetch == CallFetchUrlContent \/ DelayElapses \/ ResponseArrives

FetchSpec == InitFetch /\ [][NextFetch]_vars

(***************************************************************************)
(* collectWithRetry(url, options, retries, retryDelay).  An attempt is a   *)
(* call of collect, that is a crawl of the model; collect rejects when     *)
(* collectLinks of index.ts throws, and here also when the environment     *)
(* makes collect throw before the traversal starts.  call.attempts is the  *)
(* log of the attempts.                                                    *)
(***************************************************************************)
RetryChoices == {-1, 0, 1, 2}

RetryDelayChoices == {0, 500}

RetryParams ==
    [initialUrl : {UrlA, BlankUrl}, depth : {-1, 2}, filters : {NoFilters},
     scope : {NoScope}, delayMs : {1000}]

NoError == [attempt |-> -1, message |-> "none"]

InitRetry ==
    /\ params \in RetryParams
    /\ web = "site"
    /\ phase = "idle"
    /\ Fresh
    /\ call \in [fn : {"collectWithRetry"}, retries : RetryChoices,
                  retryDelay : RetryDelayChoices, attempt : {0}, pc : {"loop"},
                  lastError : {NoError}, attempts : {<<>>}]
    /\ returned = <<>>

Resolves(value) == [kind |-> "resolved", value |-> value]

Rejects(error) == [kind |-> "rejected", value |-> error]

\* throw lastError || new Error('Collection failed after all retries')
ThrownAfterAllRetries(lastError) ==
    IF lastError = NoError
    THEN [attempt |-> -1, message |-> "Collection failed after all retries"]
    ELSE lastError

\* for (let attempt = 0; attempt <= retries; attempt++): the next attempt
\* calls collect, or the loop is over and the last error is thrown.
NextAttempt ==
    /\ call.fn = "collectWithRetry" /\ call.pc = "loop"
    /\ IF call.attempt <= call.retries
       THEN /\ phase' = "ready"
            /\ call' = [call EXCEPT !.pc = "attempting",
                                    !.attempts = Append(@, [startedAt |-> now,
                                                            endedAt |-> now,
                                                            outcome |-> "pending"])]
            /\ UNCHANGED returned
       ELSE /\ returned' = <<Rejects(ThrownAfterAllRetries(call.lastError))>>
            /\ call' = [call EXCEPT !.pc = "done"]
            /\ UNCHANGED phase
    /\ UNCHANGED <<params, web, stack, visitedUrls, allCollectedUrls,
                   linkRelationships, errors, stats, result, fetchLog, now>>

\* The environment makes collect throw before the traversal starts.
CollectRejects ==
    /\ call.fn = "collectWithRetry" /\ call.pc = "attempting"
    /\ phase = "ready"
    /\ phase' = "rejected"
    /\ UNCHANGED <<params, web, stack, visitedUrls, allCollectedUrls,
                   linkRelationships, errors, stats, result, fetchLog, now,
                   call, returned>>

Ended(attempts, outcome) ==
    [attempts EXCEPT ![Len(attempts)] = [@ EXCEPT !.outcome = outcome, !.endedAt = now]]

\* return await collect(url, options)
AttemptResolves ==
    /\ call.fn = "collectWithRetry" /\ call.pc = "attempting"
    /\ phase = "done"
    /\ returned' = <<Resolves(result[1])>>
    /\ call' = [call EXCEPT !.pc = "done", !.attempts = Ended(@, "resolved")]
    /\ UNCHANGED <<params, web, phase, stack, visitedUrls, allCollectedUrls,
                   linkRelationships, errors, stats, result, fetchLog, now>>

\* Mutant of WaitsBeforeRetry: the wait follows every failed attempt.
WaitsAfterEveryAttempt(attempt, retries) == TRUE

\* if (attempt < retries)
WaitsBeforeRetry(attempt, retries) == attempt < retries

\* catch (error): the error is kept and, unless this was the last attempt,
\* the wait before the next one starts.
AttemptRejects ==
    /\ call.fn = "collectWithRetry" /\ call.pc = "attempting"
    /\ phase = "rejected"
    /\ call' = [call EXCEPT
                   !.lastError = [attempt |-> call.attempt, message |-> "rejected"],
                   !.attempts = Ended(@, "rejected"),
                   !.pc = IF WaitsBeforeRetry(call.attempt, call.retries)
                          THEN "delaying" ELSE "loop",
                   !.attempt = IF WaitsBeforeRetry(call.attempt, call.retries)
                               THEN @ ELSE @ + 1]
    /\ UNCHANGED <<params, web, phase, stack, visitedUrls, allCollectedUrls,
                   linkRelationships, errors, stats, result, fetchLog, now,
                   returned>>

\* await new Promise(resolve => setTimeout(resolve, retryDelay)); attempt++
RetryDelayElapses ==
    /\ call.fn = "collectWithRetry" /\ call.pc = "delaying"
    /\ now' = now + Max(call.retryDelay, 0)
    /\ call' = [call EXCEPT !.pc = "loop", !.attempt = @ + 1]
    /\ UNCHANGED <<params, web, phase, stack, visitedUrls, allCollectedUrls,
                   linkRelationships, errors, stats, result, fetchLog, returned>>

NextRetry ==
    \/ NextAttempt
    \/ CollectRejects
    \/ Next
    \/ AttemptResolves
    \/ AttemptRejects
    \/ RetryDelayElapses

RetrySpec == InitRetry /\ [][NextRetry]_vars

(***************************************************************************)
(* mergeConfig(cliArgs, fileConfig) of the command line tool.  A           *)
(* configuration is a function from option names to values; cliArgs is     *)
(* what the argument parser of bin/wlc.ts hands over: the options given on *)
(* the command line, the declared default of every other option that has   *)
(* one, and the parser's own "_" and "$0" entries.                         *)
(***************************************************************************)
OptionValues ==
    [depth : {2, 3}, delayMs : {0, 500}, logLevel : {"debug"}, output : {"out.json"}]

Options == {"depth", "delayMs", "logLevel", "output"}

Configs == { [key \in keys |-> values[key]] : keys \in SUBSET Options, values \in OptionValues }

\* The defaults declared in the option table of the collect command.
CliDefaults == [depth |-> 1, delayMs |-> 1000, logLevel |-> "info"]

ParserEntries == {"_", "$0"}

ParsedArgs(given) ==
    [key \in DOMAIN given \cup DOMAIN CliDefaults \cup ParserEntries |->
        IF key \in DOMAIN given THEN given[key]
        ELSE IF key \in DOMAIN CliDefaults THEN CliDefaults[key]
        ELSE "wlc"]

\* process.argv.some(arg => arg.startsWith('--delayMs=') || arg === '--delayMs')
isDelayMsExplicitlySet(given) == "delayMs" \in DOMAIN given

\* key !== '_' && key !== '$0' && !key.startsWith('$')
IsCliArgument(key) == key \notin ParserEntries

\* key === 'delayMs' && !isDelayMsExplicitlySet && fileConfig.delayMs !== undefined
KeepsFileValue(key, explicit, fileConfig) ==
    key = "delayMs" /\ ~explicit /\ "delayMs" \in DOMAIN fileConfig

mergeConfig(cliArgs, fileConfig, explicit) ==
    [key \in DOMAIN fileConfig \cup {k \in DOMAIN cliArgs : IsCliArgument(k)} |->
        IF key \in DOMAIN cliArgs /\ IsCliArgument(key)
        THEN IF KeepsFileValue(key, explicit, fileConfig)
             THEN fileConfig["delayMs"]
             ELSE cliArgs[key]
        ELSE fileConfig[key]]

InitMerge ==
    /\ Idle
    /\ call \in [fn : {"mergeConfig"}, given : Configs, fileConfig : Configs,
                  pc : {"parse"}, cliArgs : {<<>>}]
    /\ returned = <<>>

\* The argument parser fills in the defaults.
ParseArguments ==
    /\ call.fn = "mergeConfig" /\ call.pc = "parse"
    /\ call' = [call EXCEPT !.pc = "merge", !.cliArgs = ParsedArgs(call.given)]
    /\ UNCHANGED <<params, web, phase, stack, visitedUrls, allCollectedUrls,
                   linkRelationships, errors, stats, result, fetchLog, now,
                   returned>>

CallMergeConfig ==
    /\ call.fn = "mergeConfig" /\ call.pc = "merge"
    /\ returned' = <<mergeConfig(call.cliArgs, call.fileConfig,
                                 isDelayMsExplicitlySet(call.given))>>
    /\ call' = [call EXCEPT !.pc = "done"]
    /\ UNCHANGED <<params, web, phase, stack, visitedUrls, allCollectedUrls,
                   linkRelationships, errors, stats, result, fetchLog, now>>

NextMerge == ParseArguments \/ CallMergeConfig

MergeSpec == InitMerge /\ [][NextMerge]_vars

(***************************************************************************)
(* collectMultiple(urls, options, concurrency).  Every task is a call of   *)
(* collect with data structures of its own; the crawl variables hold the   *)
(* ones of the task that is executing (call.current) and call.tasks keeps  *)
(* the ones of the others.  The tasks interleave wherever the executing    *)
(* one can be suspended.  The limiter starts the tasks in the order of the *)
(* list while fewer than Math.max(1, concurrency) are in flight.  During   *)
(* one call a URL is always answered the same way (call.world), and every  *)
(* URL of the list is first crawled alone, which gives call.alone, the     *)
(* outcomes the concurrent crawls are compared with.                       *)
(***************************************************************************)
Worlds == {"up", "down"}

\* The answer of the site to a URL: a page where it has one in the world
\* "up", a failure where it has one in the world "down".
Served ==
    [world \in Worlds |-> [url \in Urls |->
        IF \E r \in Network["site"][url] : FetchedContent[r].null = (world = "down")
        THEN CHOOSE r \in Network["site"][url] : FetchedContent[r].null = (world = "down")
        ELSE CHOOSE r \in Network["site"][url] : TRUE]]

FetchReturnsAsServed ==
    /\ call.fn = "collectMultiple"
    /\ phase = "running" /\ stack # <<>>
    /\ Top.pc = "fetching"
    /\ AfterFetch(FetchedContent[Served[call.world][Top.url]])
    /\ UNCHANGED <<params, web, phase, visitedUrls, allCollectedUrls,
                   linkRelationships, stats, result>>
    /\ UNCHANGED <<now, call, returned>>

\* The data structures of the crawl that is executing.
Executing ==
    [params |-> params, phase |-> phase, stack |-> stack, visitedUrls |-> visitedUrls,
     allCollectedUrls |-> allCollectedUrls, linkRelationships |-> linkRelationships,
     errors |-> errors, stats |-> stats, result |-> result, fetchLog |-> fetchLog]

\* collect(url, options): collectWebLinks constructs its data structures.
NewCrawl(url, options) ==
    [params |-> [initialUrl |-> url, depth |-> options.depth, filters |-> NoFilters,
                 scope |-> NoScope, delayMs |-> options.delayMs],
     phase |-> "ready", stack |-> <<>>, visitedUrls |-> {},
     allCollectedUrls |-> <<>>, linkRelationships |-> <<>>, errors |-> <<>>,
     stats |-> [startTime |-> Str(<<>>), endTime |-> Str(<<>>), durationMs |-> 0,
                totalUrlsScanned |-> 0, totalUrlsCollected |-> 0, maxDepthReached |-> 0],
     result |-> <<>>, fetchLog |-> <<>>]

NoCrawl == [NewCrawl(UrlA, [depth |-> 0, delayMs |-> 0]) EXCEPT
               !.params = IdleParams, !.phase = "idle"]

\* Mutant of VisitedOf: one set of visited URLs for all the crawls.
VisitedShared(crawl) == visitedUrls

\* const visitedUrls = new Set<string>(), one for each call
VisitedOf(crawl) == crawl.visitedUrls

\* The crawl whose data structures are those of the record executes.
Execute(crawl) ==
    /\ params' = crawl.params
    /\ phase' = crawl.phase
    /\ stack' = crawl.stack
    /\ visitedUrls' = VisitedOf(crawl)
    /\ allCollectedUrls' = crawl.allCollectedUrls
    /\ linkRelationships' = crawl.linkRelationships
    /\ errors' = crawl.errors
    /\ stats' = crawl.stats
    /\ result' = crawl.result
    /\ fetchLog' = crawl.fetchLog

\* What a crawl gave, apart from the times it was given at.
Outcome(crawl) ==
    [phase |-> crawl.phase,
     result |-> IF crawl.result = <<>> THEN <<>>
                ELSE <<[crawl.result[1] EXCEPT
                          !.stats = [@ EXCEPT !.startTime = Str(<<>>),
                                              !.endTime = Str(<<>>),
                                              !.durationMs = 0]]>>]

UrlLists == {<<>>, <<UrlA>>, <<UrlA, BlankUrl>>, <<BlankUrl, UrlA>>}

OverlappingUrlLists == {<<UrlA, UrlA>>, <<UrlA, UrlANoSlash>>}

LongUrlLists == {<<UrlA, UrlANoSlash, UrlA>>, <<UrlA, BlankUrl, UrlANoSlash>>}

MultipleCall(urls, options, concurrency, worlds) ==
    [fn : {"collectMultiple"}, urls : urls, options : options,
     concurrency : concurrency, world : worlds, pc : {"alone"},
     alone : {<<>>}, tasks : {<<>>}, current : {0}, met : {FALSE}]

InitMultiple ==
    /\ Idle
    /\ \/ call \in MultipleCall(UrlLists, {[depth |-> 2, delayMs |-> 1000]},
                                 {0, 1, 2}, Worlds)
       \/ call \in MultipleCall(OverlappingUrlLists, {[depth |-> 1, delayMs |-> 0]},
                                 {0, 1, 2}, Worlds)
       \/ call \in MultipleCall(LongUrlLists, {[depth |-> 0, delayMs |-> 0]},
                                 {1, 2, 3}, {"up"})
    /\ returned = <<>>

\* The next URL of the list is crawled alone.
CrawlAlone ==
    /\ call.fn = "collectMultiple" /\ call.pc = "alone"
    /\ phase = "idle"
    /\ Len(call.alone) < Len(call.urls)
    /\ Execute(NewCrawl(call.urls[Len(call.alone) + 1], call.options))
    /\ UNCHANGED <<web, now, call, returned>>

AloneEnds ==
    /\ call.fn = "collectMultiple" /\ call.pc = "alone"
    /\ phase \in {"done", "rejected"}
    /\ call' = [call EXCEPT !.alone = Append(@, Outcome(Executing))]
    /\ Execute(NoCrawl)
    /\ UNCHANGED <<web, now, returned>>

\* if (urls.length === 0) return []; otherwise every URL is handed to the
\* limiter: urls.map(url => limit(() => collect(url, options))).
CallCollectMultiple ==
    /\ call.fn = "collectMultiple" /\ call.pc = "alone"
    /\ phase = "idle"
    /\ Len(call.alone) = Len(call.urls)
    /\ IF call.urls = <<>>
       THEN /\ returned' = <<Resolves(<<>>)>>
            /\ call' = [call EXCEPT !.pc = "done"]
       ELSE /\ call' = [call EXCEPT
                          !.pc = "mapped",
                          !.tasks = [i \in 1..Len(call.urls) |->
                                        [status |-> "queued",
                                         crawl |-> NewCrawl(call.urls[i], call.options)]]]
            /\ UNCHANGED returned
    /\ UNCHANGED <<params, web, phase, stack, visitedUrls, allCollectedUrls,
                   linkRelationships, errors, stats, result, fetchLog, now>>

InFlight(tasks) == Cardinality({i \in DOMAIN tasks : tasks[i].status = "running"})

\* pLimit(Math.max(1, concurrency))
Limit(concurrency) == Max(1, concurrency)

\* The limiter starts the first task of its queue when one more may run.
StartTask ==
    /\ call.fn = "collectMultiple" /\ call.pc = "mapped"
    /\ InFlight(call.tasks) < Limit(call.concurrency)
    /\ \E i \in DOMAIN call.tasks :
          /\ call.tasks[i].status = "queued"
          /\ \A j \in 1..(i - 1) : call.tasks[j].status # "queued"
          /\ call' = [call EXCEPT !.tasks[i].status = "running"]
    /\ UNCHANGED <<params, web, phase, stack, visitedUrls, allCollectedUrls,
                   linkRelationships, errors, stats, result, fetchLog, now, returned>>

\* The tasks with the data structures of the executing one put back.
Suspended(tasks, current) ==
    IF current = 0 THEN tasks ELSE [tasks EXCEPT ![current].crawl = Executing]

\* The executing task is suspended and another one that is in flight goes on.
Switch ==
    /\ call.fn = "collectMultiple" /\ call.pc = "mapped"
    /\ \E i \in DOMAIN call.tasks \ {call.current} :
          /\ call.tasks[i].status = "running"
          /\ call' = [call EXCEPT
                        !.tasks = Suspended(@, call.current),
                        !.current = i,
                        !.met = @ \/ (/\ call.current # 0
                                      /\ visitedUrls \cap call.tasks[i].crawl.visitedUrls # {})]
          /\ Execute(call.tasks[i].crawl)
    /\ UNCHANGED <<web, now, returned>>

Settled(tasks) == \A i \in DOMAIN tasks : tasks[i].status \in {"resolved", "rejected"}

\* Mutant of PromiseAll: as Promise.allSettled, the results of the tasks
\* that resolved once every task has settled.
PromiseAllSettled(tasks) ==
    LET IsResolved(t) == t.status = "resolved"
        resolved == SelectSeq(tasks, IsResolved)
    IN  IF Settled(tasks)
        THEN <<Resolves([k \in DOMAIN resolved |-> resolved[k].crawl.result[1]])>>
        ELSE <<>>

\* return Promise.all(promises): the value when every task has resolved,
\* the error of the first task that rejects.
PromiseAll(tasks) ==
    IF \E i \in DOMAIN tasks : tasks[i].status = "rejected"
    THEN <<Rejects(CHOOSE i \in DOMAIN tasks : tasks[i].status = "rejected")>>
    ELSE IF Settled(tasks)
    THEN <<Resolves([i \in DOMAIN tasks |-> tasks[i].crawl.result[1]])>>
    ELSE <<>>

\* collect returns or throws: the task settles and the limiter has room.
TaskSettles ==
    /\ call.fn = "collectMultiple" /\ call.pc = "mapped"
    /\ call.current # 0
    /\ phase \in {"done", "rejected"}
    /\ LET tasks == [Suspended(call.tasks, call.current) EXCEPT
                        ![call.current].status =
                            IF phase = "done" THEN "resolved" ELSE "rejected"]
       IN /\ call' = [call EXCEPT !.tasks = tasks, !.current = 0,
                                  !.pc = IF Settled(tasks) THEN "done" ELSE "mapped"]
          /\ returned' = IF returned = <<>> THEN PromiseAll(tasks) ELSE returned
    /\ Execute(NoCrawl)
    /\ UNCHANGED <<web, now>>

NextMultiple ==
    \/ CrawlAlone
    \/ AloneEnds
    \/ CallCollectMultiple
    \/ StartTask
    \/ Switch
    \/ TaskSettles
    \/ StartCollection
    \/ ApplyDelay
    \/ Visit
    \/ FetcherDelay
    \/ FetchReturnsAsServed
    \/ ProcessNextLink
    \/ LoopEnds
    \/ ReturnResult

MultipleSpec == InitMultiple /\ [][NextMultiple]_vars

\* The entry points of the library: a crawl, one call of isUrlAllowed, one
\* call of extractLinksFromHtml.
InitLibrary == Init \/ InitFilter \/ InitExtract

NextLibrary == Next \/ CallIsUrlAllowed \/ CallExtractLinksFromHtml

LibrarySpec == InitLibrary /\ [][NextLibrary]_vars

(***************************************************************************)
(* Properties of the traversal.                                            *)
(***************************************************************************)
CollectedSet == Range(allCollectedUrls)

\* The URLs fetchUrlContent was called with, in order.
FetchedUrls == [i \in 1..Len(fetchLog) |-> fetchLog[i].url]

\* The calls of fetchUrlContent whose page was fetched and parsed.
ParsedPages == {i \in 1..Len(fetchLog) : fetchLog[i].outcome = "links"}

\* The decision of the URL Filter for a URL found at a depth > 0.
ChildAdmitted(url) == isUrlAllowed(url, params.filters, NoBaseUrl)

\* The innermost activation is about to run the visited check.
AtVisitedCheck == phase = "running" /\ stack # <<>> /\ Top.pc \in {"enter", "check"}

Finished == phase = "done"

\* collectWebLinks was called.
Started == phase \in {"running", "done"}

TheResult == result[1]

\* C1, first part: a visit of a URL that is already in the VisitedSet changes
\* nothing but the call stack: it scans, records and fetches nothing.
C1_RevisitChangesNothing ==
    [][(AtVisitedCheck /\ Top.url \in visitedUrls)
         => /\ UNCHANGED <<visitedUrls, allCollectedUrls, linkRelationships, errors,
                           stats, fetchLog>>
            /\ \/ stack' = Return
               \/ stack' = SetTop([Top EXCEPT !.pc = "check"])]_vars

C1_CountedAndFetchedOnce ==
    /\ NoDuplicates(FetchedUrls)
    /\ stats.totalUrlsScanned <= Cardinality(visitedUrls)
    /\ Range(FetchedUrls) \subseteq visitedUrls

\* C1: a visit of an already visited URL returns without scanning, recording
\* or fetching, so every URL string is counted in totalUrlsScanned at most
\* once and fetched at most once, in graphs with cycles and shared links too.
C1_VisitedGuard == []C1_CountedAndFetchedOnce /\ C1_RevisitChangesNothing

\* C1 witness: a link back to the already visited initial URL is up for its
\* visit after three pages were fetched.
C1_Witness ==
    /\ AtVisitedCheck /\ Top.currentDepth > 0
    /\ Top.url = params.initialUrl /\ Top.url \in visitedUrls
    /\ Len(fetchLog) >= 2

\* C2: at every point of a crawl totalUrlsCollected <= totalUrlsScanned and no
\* URL occurs twice in allCollectedUrls, in the result as well.
C2_CollectedWithinScanned ==
    /\ stats.totalUrlsCollected <= stats.totalUrlsScanned
    /\ NoDuplicates(allCollectedUrls)
    /\ Finished => /\ NoDuplicates(TheResult.allCollectedUrls)
                   /\ TheResult.stats.totalUrlsCollected
                        <= TheResult.stats.totalUrlsScanned

\* C2 witness: a finished crawl that scanned more URLs than it collected.
C2_Witness ==
    /\ Finished
    /\ TheResult.stats.totalUrlsCollected < TheResult.stats.totalUrlsScanned
    /\ Len(TheResult.allCollectedUrls) >= 3

\* C3: at every point of a crawl and in the result, every found value of a
\* LinkRelationship is a member of allCollectedUrls.
C3_FoundIsCollected ==
    /\ \A i \in 1..Len(linkRelationships) : linkRelationships[i].found \in CollectedSet
    /\ Finished => \A i \in 1..Len(TheResult.linkRelationships) :
                      TheResult.linkRelationships[i].found
                        \in Range(TheResult.allCollectedUrls)

\* C3 witness: a finished crawl with relationships, in which the filter
\* rejected a URL that a page linked to.
C3_Witness ==
    /\ Finished
    /\ Len(TheResult.linkRelationships) >= 2
    /\ \E u \in visitedUrls : u \notin CollectedSet

\* C4 as claimed: in the result every source of a LinkRelationship is the
\* initial URL or a member of allCollectedUrls, redirects included.
C4_SourceIsAdmitted ==
    Finished => \A i \in 1..Len(TheResult.linkRelationships) :
                   \/ TheResult.linkRelationships[i].source = TheResult.initialUrl
                   \/ TheResult.linkRelationships[i].source
                        \in Range(TheResult.allCollectedUrls)

ClampedDepth == IF params.depth <= 5 THEN params.depth ELSE 5

\* C5: the depth of the result is min(requestedDepth, 5), and the traversal
\* uses this clamped value: no page at that depth or deeper is fetched.
C5_DepthIsClamped ==
    /\ Finished => TheResult.depth = ClampedDepth
    /\ \A i \in 1..Len(fetchLog) : fetchLog[i].currentDepth < ClampedDepth

\* C5 witness: a finished crawl asked for more than 5 levels that went down
\* to level 5.
C5_Witness ==
    /\ Finished /\ params.depth > 5
    /\ TheResult.depth = 5
    /\ TheResult.stats.maxDepthReached = 5

\* C6: no activation is deeper than maxDepth and none at maxDepth fetches or
\* extracts, so maxDepthReached <= depth <= 5; with maxDepth = 0 nothing is
\* fetched and the result holds the initial URL only.
C6_DepthLimit ==
    /\ \A i \in 1..Len(stack) :
          /\ stack[i].currentDepth <= maxDepth
          /\ stack[i].pc \in {"waiting", "fetching", "loop"}
               => stack[i].currentDepth < maxDepth
    /\ Started => stats.maxDepthReached <= maxDepth
    /\ Finished => /\ TheResult.stats.maxDepthReached <= TheResult.depth
                   /\ TheResult.depth <= 5
    /\ (Started /\ maxDepth = 0) =>
          /\ fetchLog = <<>>
          /\ Finished => /\ TheResult.allCollectedUrls = <<params.initialUrl>>
                         /\ TheResult.linkRelationships = <<>>
                         /\ TheResult.errors = <<>>

\* C6 witness: a finished crawl that collected, at its maximum depth >= 1, a
\* URL it did not fetch.
C6_Witness ==
    /\ Finished /\ TheResult.depth >= 1
    /\ TheResult.stats.maxDepthReached = TheResult.depth
    /\ \E u \in CollectedSet : u \notin Range(FetchedUrls)

\* C7: whatever the filters, once the crawl has scanned anything the initial
\* URL is the first element of allCollectedUrls and is counted as collected.
C7_InitialUrlAdmitted ==
    /\ visitedUrls # {} =>
          /\ allCollectedUrls # <<>>
          /\ allCollectedUrls[1] = params.initialUrl
          /\ stats.totalUrlsCollected >= 1
    /\ Finished => /\ TheResult.allCollectedUrls # <<>>
                   /\ TheResult.allCollectedUrls[1] = params.initialUrl
                   /\ TheResult.stats.totalUrlsCollected >= 1

\* C7 witness: a finished crawl whose filter conditions reject the initial
\* URL and admit one of the URLs found.
C7_Witness ==
    /\ Finished
    /\ params.filters.kind # "none"
    /\ ~ChildAdmitted(params.initialUrl)
    /\ Len(TheResult.allCollectedUrls) >= 2

\* C8: a URL found at a depth > 0 that the filter rejects is not collected, is
\* no found value, is not fetched (so none of its links is visited); it is in
\* the VisitedSet and counted as scanned.
C8_RejectedUrl ==
    /\ \A u \in visitedUrls \ {params.initialUrl} :
          ~ChildAdmitted(u) =>
             /\ u \notin CollectedSet
             /\ \A i \in 1..Len(linkRelationships) : linkRelationships[i].found # u
             /\ u \notin Range(FetchedUrls)
    /\ stats.totalUrlsScanned - stats.totalUrlsCollected
          = Cardinality(visitedUrls \ CollectedSet)
    /\ Finished => \A i \in ParsedPages : \A l \in Range(fetchLog[i].links) :
                      ~ChildAdmitted(l) => l \in visitedUrls

\* C8 witness: a finished crawl in which a page linked to a rejected URL and
\* to an admitted one.
C8_Witness ==
    /\ Finished
    /\ \E i \in ParsedPages : \E l, m \in Range(fetchLog[i].links) :
          /\ l # params.initialUrl /\ ~ChildAdmitted(l) /\ l \in visitedUrls
          /\ m # params.initialUrl /\ ChildAdmitted(m) /\ m \in CollectedSet

\* C9: when the crawl returns, every admitted URL of the extracted link set of
\* a page fetched and parsed is collected and is the found value of a
\* relationship whose source is the resolved URL of a parsed page linking to it
\* (the page on which the URL was not yet visited).
C9_LinksAreCollected ==
    Finished =>
       \A i \in ParsedPages : \A l \in Range(fetchLog[i].links) :
          (l # params.initialUrl /\ ChildAdmitted(l)) =>
             /\ l \in CollectedSet
             /\ \E k \in 1..Len(linkRelationships) :
                   /\ linkRelationships[k].found = l
                   /\ \E j \in ParsedPages :
                         /\ linkRelationships[k].source = fetchLog[j].finalUrl
                         /\ l \in Range(fetchLog[j].links)

\* C9 witness: a finished crawl that parsed two pages and recorded a
\* relationship from a page other than the initial one.
C9_Witness ==
    /\ Finished
    /\ Cardinality(ParsedPages) >= 2
    /\ \E k \in 1..Len(linkRelationships) : \E j \in ParsedPages :
          /\ fetchLog[j].currentDepth >= 1
          /\ linkRelationships[k].source = fetchLog[j].finalUrl
          /\ linkRelationships[k].found \in Range(fetchLog[j].links)

FetchErrorOf(url) == [url |-> url, errorType |-> "FetchError"]

C10_OneErrorAndNoDescent ==
    /\ \A i \in 1..Len(fetchLog) :
          fetchLog[i].outcome = "null" =>
             /\ Cardinality({k \in 1..Len(errors) :
                               errors[k] = FetchErrorOf(fetchLog[i].url)}) = 1
             /\ fetchLog[i].url \in CollectedSet
             /\ \A k \in 1..Len(stack) :
                   stack[k].url = fetchLog[i].url => stack[k].pc \in {"enter", "check"}
    /\ Cardinality({k \in 1..Len(errors) : errors[k].errorType = "FetchError"})
          = Cardinality({i \in 1..Len(fetchLog) : fetchLog[i].outcome = "null"})
    /\ Finished => /\ \A i \in ParsedPages : Range(fetchLog[i].links) \subseteq visitedUrls
                   /\ TheResult.errors = errors
                   /\ TheResult.allCollectedUrls = allCollectedUrls

C10_SomeFetchFailed == \E i \in 1..Len(fetchLog) : fetchLog[i].outcome = "null"

\* C10: a failed fetch of an admitted URL appends exactly one FetchError for
\* that URL, leaves the URL collected and starts no loop over links for it; the
\* crawl goes on with the remaining siblings and returns a result.
C10_FetchFailure ==
    /\ []C10_OneErrorAndNoDescent
    /\ C10_SomeFetchFailed ~> Finished

\* C10 witness: a finished crawl in which the fetch of a link failed and a
\* later link of the same page was fetched.
C10_Witness ==
    /\ Finished
    /\ \E i \in ParsedPages : \E a, b \in 1..Len(fetchLog[i].links) :
          /\ a < b
          /\ \E x, y \in 1..Len(fetchLog) :
                /\ x < y
                /\ fetchLog[x].url = fetchLog[i].links[a] /\ fetchLog[x].outcome = "null"
                /\ fetchLog[y].url = fetchLog[i].links[b]

ParseErrorOf(url) == [url |-> url, errorType |-> "ParseError"]

\* The calls of fetchUrlContent whose page made the extraction throw.
ThrewPages == {i \in 1..Len(fetchLog) : fetchLog[i].outcome = "threw"}

\* C11, the step: the extraction of the page just fetched throws.
C11_ExtractionThrows ==
    /\ phase = "running" /\ stack # <<>> /\ Top.pc = "fetching"
    /\ fetchLog'[Len(fetchLog)].outcome = "threw"

C11_CaughtInTheActivation ==
    [][C11_ExtractionThrows
         => /\ errors' = Append(errors, ParseErrorOf(fetchLog'[Len(fetchLog)].finalUrl))
            /\ stack' = Return
            /\ UNCHANGED <<visitedUrls, allCollectedUrls, linkRelationships, phase>>]_vars

C11_OneErrorAndNoLink ==
    /\ Cardinality({k \in 1..Len(errors) : errors[k].errorType = "ParseError"})
          = Cardinality(ThrewPages)
    /\ \A i \in ThrewPages :
          /\ \E k \in 1..Len(errors) : errors[k] = ParseErrorOf(fetchLog[i].finalUrl)
          /\ fetchLog[i].links = <<>>
          /\ \A k \in 1..Len(stack) :
                stack[k].url = fetchLog[i].url => stack[k].pc \in {"enter", "check"}
          /\ \A k \in 1..Len(linkRelationships) :
                linkRelationships[k].source # fetchLog[i].finalUrl
    /\ Finished =>
          \A i \in ParsedPages : \A a, b \in 1..Len(fetchLog[i].links) :
             (a < b /\ \E x \in ThrewPages : fetchLog[x].url = fetchLog[i].links[a])
                => fetchLog[i].links[b] \in visitedUrls

\* C11: when the extraction of a fetched page throws, one ParseError with the
\* page's resolved URL is appended and only that activation ends: none of the
\* page's links is visited and its remaining siblings are.
C11_ParseError == []C11_OneErrorAndNoLink /\ C11_CaughtInTheActivation

\* C11 witness: a finished crawl in which the extraction of a linked page threw
\* and a later link of the same parent was fetched.
C11_Witness ==
    /\ Finished
    /\ \E i \in ParsedPages : \E a, b \in 1..Len(fetchLog[i].links) :
          /\ a < b
          /\ \E x \in ThrewPages : \E y \in 1..Len(fetchLog) :
                /\ x < y /\ fetchLog[x].currentDepth >= 1
                /\ fetchLog[x].url = fetchLog[i].links[a]
                /\ fetchLog[y].url = fetchLog[i].links[b]

CollectionErrors(errs) == {k \in 1..Len(errs) : errs[k].errorType = "CollectionError"}

C12_EscapesTheFirstActivation == UnexpectedException /\ Len(stack) = 1

C12_CaughtAtTopLevel ==
    [][C12_EscapesTheFirstActivation
         => /\ errors' = Append(errors, ErrorEntry(params.initialUrl, "CollectionError"))
            /\ phase' = "running"
            /\ UNCHANGED <<visitedUrls, allCollectedUrls, linkRelationships, stats>>]_vars

C12_ResultIsKept ==
    /\ phase = "rejected" => (InputError /\ fetchLog = <<>> /\ visitedUrls = {})
    /\ Cardinality(CollectionErrors(errors)) <= 1
    /\ \A k \in CollectionErrors(errors) : errors[k].url = params.initialUrl
    /\ Finished =>
          /\ TheResult.errors = errors
          /\ TheResult.allCollectedUrls = allCollectedUrls
          /\ TheResult.linkRelationships = linkRelationships
          /\ TheResult.stats.totalUrlsScanned = Cardinality(visitedUrls)
          /\ TheResult.stats.endTime = Time(now)
          /\ TheResult.stats.startTime.kind = "time"
          /\ TheResult.stats.durationMs = now - TheResult.stats.startTime.v

\* C12: collectWebLinks never rejects: an exception escaping the first
\* activation of collectLinks becomes one CollectionError for the initial URL,
\* and the result returned holds what was accumulated, with endTime and
\* durationMs set.
C12_CollectionError == []C12_ResultIsKept /\ C12_CaughtAtTopLevel

\* C12 witness: a result with a CollectionError that keeps the initial URL
\* collected before the exception.
C12_Witness ==
    /\ Finished
    /\ CollectionErrors(TheResult.errors) # {}
    /\ TheResult.allCollectedUrls = <<params.initialUrl>>
    /\ TheResult.stats.totalUrlsScanned = 1
    /\ TheResult.stats.endTime.kind = "time"

\* The initial URL of the call is no URL, or the depth is negative.
InvalidInput == ~ParseUrl(Trimmed[params.initialUrl]).ok \/ params.depth < 0

\* C13 as claimed: a call with an invalid initialUrl or a negative depth is
\* rejected before any URL is scanned or fetched, and gives no result.
C13_InvalidInputIsRejected ==
    InvalidInput => /\ phase \in {"ready", "rejected"}
                    /\ visitedUrls = {}
                    /\ stats.totalUrlsScanned = 0
                    /\ fetchLog = <<>>
                    /\ result = <<>>

\* The extracted links of the page that activation k loops over, and how many
\* of them the loop has taken.
PageLinks(k) == fetchLog[CHOOSE i \in ParsedPages : fetchLog[i].url = stack[k].url].links

Taken(k) == Len(PageLinks(k)) - Len(stack[k].links)

PendingFetches == {i \in 1..Len(fetchLog) : fetchLog[i].outcome = "pending"}

\* C14: at most one fetch is pending, that of the innermost activation; every
\* other activation waits in its loop for the visit of the one candidate it
\* took last, having taken the candidates in extraction order, each only after
\* the visit of the one before, subtree included, had returned.
C14_OneAtATime ==
    /\ Cardinality(PendingFetches) <= 1
    /\ \A i \in PendingFetches :
          /\ i = Len(fetchLog) /\ stack # <<>>
          /\ Top.url = fetchLog[i].url /\ Top.pc \in {"waiting", "fetching"}
    /\ \A k \in 1..Len(stack) :
          /\ k < Len(stack) =>
                /\ stack[k].pc = "loop"
                /\ Taken(k) >= 1
                /\ stack[k + 1].url = PageLinks(k)[Taken(k)]
                /\ stack[k + 1].currentDepth = stack[k].currentDepth + 1
          /\ stack[k].pc = "loop" =>
                /\ stack[k].links = SubSeq(PageLinks(k), Taken(k) + 1, Len(PageLinks(k)))
                /\ \A j \in 1..Taken(k) :
                      (j < Taken(k) \/ k = Len(stack)) => PageLinks(k)[j] \in visitedUrls

\* C14 witness: the second candidate of a page is being fetched after the
\* visit of the first, which fetched a page of its own, has returned.
C14_Witness ==
    /\ phase = "running" /\ Len(stack) >= 2
    /\ Top.pc = "fetching"
    /\ Taken(Len(stack) - 1) = 2
    /\ \E x, y \in 1..Len(fetchLog) :
          /\ x < y /\ y < Len(fetchLog)
          /\ fetchLog[x].url = PageLinks(Len(stack) - 1)[1]
          /\ fetchLog[y].currentDepth = Top.currentDepth + 1

\* C15: with delayMs > 0 every request, the first included, is issued delayMs
\* or more after fetchUrlContent was called, so delayMs or more after the
\* start of the crawl and after the request before it; with delayMs <= 0 the
\* request is issued in the call.
C15_FetcherDelay ==
    \A i \in 1..Len(fetchLog) :
       /\ fetchLog[i].issued => Validated(fetchLog[i].url)
       /\ (fetchLog[i].outcome # "pending" /\ Validated(fetchLog[i].url))
             => fetchLog[i].issued
       /\ (params.delayMs > 0 /\ fetchLog[i].issued) =>
             /\ fetchLog[i].issuedAt >= fetchLog[i].calledAt + params.delayMs
             /\ fetchLog[i].issuedAt >= stats.startTime.v + params.delayMs
             /\ i > 1 => /\ fetchLog[i - 1].issued
                         /\ fetchLog[i].issuedAt
                               >= fetchLog[i - 1].issuedAt + params.delayMs
       /\ (params.delayMs <= 0 /\ Validated(fetchLog[i].url)) =>
             /\ fetchLog[i].issued
             /\ fetchLog[i].issuedAt = fetchLog[i].calledAt

\* C15 witness: a finished crawl with a delay that issued three requests, the
\* first one delayMs after its start.
C15_Witness ==
    /\ Finished /\ params.delayMs > 0
    /\ Len(fetchLog) >= 3
    /\ fetchLog[1].issuedAt = TheResult.stats.startTime.v + params.delayMs
    /\ fetchLog[3].issuedAt >= fetchLog[1].issuedAt + 2 * params.delayMs

\* The pages the network can have served for call i of fetchUrlContent.
PagesServed(i) ==
    {FetchedContent[response] : response \in Network[web][fetchLog[i].url]}
       \cap {fetched \in AllFetched : fetched.finalUrl = fetchLog[i].finalUrl}

\* What came of call i is what the extraction with this scope gives.
ExtractedWith(i, scope) ==
    \E fetched \in PagesServed(i) :
       /\ ExtractedLinks[fetched][scope].threw = (fetchLog[i].outcome = "threw")
       /\ ExtractedLinks[fetched][scope].links = fetchLog[i].links

\* C16: the page at depth 0 is extracted with the selector and the element of
\* the request, every page at depth >= 1 without any scope.
C16_ScopeAtDepthZeroOnly ==
    \A i \in 1..Len(fetchLog) :
       fetchLog[i].outcome \in {"links", "threw"} =>
          IF fetchLog[i].currentDepth = 0
          THEN ExtractedWith(i, params.scope)
          ELSE ExtractedWith(i, NoScope)

\* C16 witness: a finished crawl with a scope that extracted, from a page at
\* depth >= 1, links that the scope would not have given.
C16_Witness ==
    /\ Finished /\ params.scope # NoScope
    /\ \E i \in ParsedPages :
          /\ fetchLog[i].currentDepth >= 1
          /\ ExtractedWith(i, NoScope)
          /\ ~ExtractedWith(i, params.scope)

\* A field of a condition matches: it is absent, or its string, or one of the
\* strings of its array, passes the test.
FieldMatches(field, Test(_)) ==
    CASE field.kind = "none" -> TRUE
      [] field.kind = "str" -> Test(field.v)
      [] field.kind = "arr" -> \E i \in 1..Len(field.v) : Test(field.v[i])

AllFieldsMatch(condition, url, parsedUrl) ==
    /\ FieldMatches(condition.domain, LAMBDA d : Includes(parsedUrl.hostname, d))
    /\ FieldMatches(condition.pathPrefix, LAMBDA x : StartsWith(parsedUrl.pathname, x))
    /\ FieldMatches(condition.regex, LAMBDA r : RegExpTest(r, url) = "true")
    /\ FieldMatches(condition.keywords, LAMBDA w : Includes(url, w))

HasExcludedPath(parsedUrl) ==
    \E i \in 1..Len(DEFAULT_EXCLUDED_PATHS) :
       Includes(parsedUrl.pathname, DEFAULT_EXCLUDED_PATHS[i])

AdmittedAsStated(url, parsedUrl, filters) ==
    /\ parsedUrl.ok
    /\ ~HasExcludedPath(parsedUrl)
    /\ \/ filters.kind = "none"
       \/ filters.v = <<>>
       \/ \E i \in 1..Len(filters.v) : AllFieldsMatch(filters.v[i], url, parsedUrl)

Reversed(filters) ==
    IF filters.kind = "none" THEN filters
    ELSE Arr([i \in 1..Len(filters.v) |-> filters.v[Len(filters.v) + 1 - i]])

FilterReturned == call.fn = "isUrlAllowed" /\ returned # <<>> /\ ~Truthy(call.baseUrl)

\* C17 as claimed: for every URL and filter list isUrlAllowed returns true
\* exactly when the URL parses, its path has no default-excluded entry, and
\* the list is absent or empty or some condition has all its present fields
\* matching; the list in the reverse order gives the same decision.
C17_AnyConditionAllFields ==
    FilterReturned =>
       /\ returned[1] = AdmittedAsStated(call.url, ParseUrl(call.url), call.filters)
       /\ returned[1] = isUrlAllowed(call.url, Reversed(call.filters), NoBaseUrl)

ExcludedByDefault(url) == ParseUrl(url).ok /\ HasExcludedPath(ParseUrl(url))

C18_FunctionRejects ==
    (call.fn = "isUrlAllowed" /\ returned # <<>> /\ ExcludedByDefault(call.url))
       => returned[1] = FALSE

C18_CrawlNeverTakes ==
    /\ \A url \in Range(allCollectedUrls) :
          ExcludedByDefault(url) => (Started /\ url = params.initialUrl)
    /\ \A i \in 1..Len(fetchLog) :
          ExcludedByDefault(fetchLog[i].url) => fetchLog[i].currentDepth = 0

\* C18: isUrlAllowed returns false for every URL whose pathname contains a
\* default-excluded entry, whatever the filter list, and a crawl neither
\* collects nor fetches such a URL at a depth above 0.
C18_DefaultExclusions == C18_FunctionRejects /\ C18_CrawlNeverTakes

\* A finished crawl whose only condition matches, in all its fields, an
\* excluded link of a page it parsed; the link is not collected.
C18_Witness ==
    /\ Finished /\ params.filters.kind = "arr" /\ Len(params.filters.v) = 1
    /\ \E i \in ParsedPages : \E k \in 1..Len(fetchLog[i].links) :
          /\ ExcludedByDefault(fetchLog[i].links[k])
          /\ AllFieldsMatch(params.filters.v[1], fetchLog[i].links[k],
                            ParseUrl(fetchLog[i].links[k]))
          /\ fetchLog[i].currentDepth < maxDepth
          /\ fetchLog[i].links[k] \notin Range(allCollectedUrls)

Extracted == call.fn = "extractLinksFromHtml" /\ returned # <<>>

\* The URLs the hrefs of a set of elements give.
LinksOf(doc, elements, baseUrl) ==
    UNION {Range(HrefOf(doc[i].href, baseUrl)) : i \in elements}

Matches(doc, scope) == IF Truthy(scope) THEN Select(doc, scope.v) ELSE {}

SelectorTier(doc, baseUrl, cssSelector, element, links) ==
    /\ \/ Range(links) = LinksOf(doc, Matches(doc, cssSelector), baseUrl)
       \/ Range(links) = LinksOf(doc, FindAnchors(doc, Matches(doc, cssSelector)), baseUrl)
    /\ links = extractLinksFromHtml(doc, baseUrl, cssSelector, Absent).links

ElementTier(doc, baseUrl, element, links) ==
    /\ Range(links) = LinksOf(doc, FindAnchors(doc, Matches(doc, element)), baseUrl)
    /\ links = extractLinksFromHtml(doc, baseUrl, Absent, element).links

DocumentTier(doc, baseUrl, links) ==
    /\ Range(links) = LinksOf(doc, AllLinkElements(doc), baseUrl)
    /\ links = extractLinksFromHtml(doc, baseUrl, Absent, Absent).links

ScopeByPriority(doc, baseUrl, cssSelector, element, links) ==
    IF Matches(doc, cssSelector) # {}
    THEN SelectorTier(doc, baseUrl, cssSelector, element, links)
    ELSE IF Matches(doc, element) # {}
    THEN ElementTier(doc, baseUrl, element, links)
    ELSE DocumentTier(doc, baseUrl, links)

\* C19: the links come from the matches of the selector when it matches a
\* node, else from the matches of the element when it matches a node, else
\* from every a[href] and link[href] of the document; a selector or element
\* without a match gives what the call without it gives.
C19_ScopePriority ==
    (Extracted /\ ~returned[1].threw) =>
       ScopeByPriority(call.htmlContent, call.baseUrl, call.cssSelector,
                       call.element, returned[1].links)

\* Neither the selector nor the element matches a node of a page with
\* links, and the links of the whole page are returned.
C19_Witness ==
    /\ Extracted /\ ~returned[1].threw
    /\ Truthy(call.cssSelector) /\ Matches(call.htmlContent, call.cssSelector) = {}
    /\ Truthy(call.element) /\ Matches(call.htmlContent, call.element) = {}
    /\ Len(returned[1].links) >= 4

ExcludedSchemes ==
    { <<"j", "a", "v", "a", "s", "c", "r", "i", "p", "t", ":">>, <<"m", "a", "i", "l", "t", "o", ":">>, <<"t", "e", "l", ":">>, <<"s", "m", "s", ":">>, <<"f", "i", "l", "e", ":">>, <<"d", "a", "t", "a", ":">> }

\* C20 as claimed: no returned URL has the scheme javascript:, mailto:, tel:,
\* sms:, file: or data:, in whatever letter case the href was written; every
\* returned URL is absolute and none is returned twice.
C20_NoExcludedScheme ==
    Extracted =>
       /\ \A k \in 1..Len(returned[1].links) :
             /\ ParseUrl(returned[1].links[k]).ok
             /\ ParseUrl(returned[1].links[k]).protocol \notin ExcludedSchemes
       /\ NoDuplicates(returned[1].links)

\* A share link of a page: another URL holding the URL of the page in the
\* value of a query parameter or in its fragment.
SharesParsed(parsedUrl, pageUrl) ==
    /\ parsedUrl.ok
    /\ \/ \E value \in SearchParamValues(parsedUrl) : Includes(value, pageUrl)
       \/ Includes(parsedUrl.hash, pageUrl)

Shares(url, pageUrl) == url # pageUrl /\ SharesParsed(ParseUrl(url), pageUrl)

C21_ExtractorDropsShareLinks ==
    (Extracted /\ ~returned[1].threw) =>
       \A k \in 1..Len(returned[1].links) : ~Shares(returned[1].links[k], call.baseUrl)

\* The pages of a crawl: no link taken from a page, no activation started
\* from it and no relationship recorded for it is a share link of its
\* resolved URL.
C21_CrawlDropsShareLinks ==
    /\ \A i \in ParsedPages : \A k \in 1..Len(fetchLog[i].links) :
          ~Shares(fetchLog[i].links[k], fetchLog[i].finalUrl)
    /\ \A n \in 1..Len(stack) :
          Truthy(stack[n].sourceUrl) => ~Shares(stack[n].url, stack[n].sourceUrl.v)
    /\ \A r \in 1..Len(linkRelationships) :
          ~Shares(linkRelationships[r].found, linkRelationships[r].source)

HomeShareLinks ==
    {resolveUrl(DocHome[k].href.v, UrlA).v :
        k \in {n \in 1..Len(DocHome) : Truthy(DocHome[n].href)}}
       \cap {url \in Urls \cup { <<"h", "t", "t", "p", ":", "/", "/", "b", "/", "s", "?", "u", "=", "h", "t", "t", "p", ":", "/", "/", "a", "/">> } : Shares(url, UrlA)}

FetcherCalled == call.fn = "fetchUrlContent"

FetcherReturned == FetcherCalled /\ returned # <<>>

\* An empty URL, or one whose scheme is not http or https (the scheme of a
\* text without any is none of them).
NotFetchable(url) ==
    \/ Trim(url) = <<>>
    \/ ToLowerCase(Slice(url, 1, SchemeEnd(url))) \notin { <<"h", "t", "t", "p", ":">>, <<"h", "t", "t", "p", "s", ":">> }

\* C22: the fetch of an empty URL, or of a URL whose scheme is not http or
\* https, returns the no-content signal; no request is issued for it and the
\* clock does not advance.
C22_RefusedWithoutRequest ==
    (FetcherCalled /\ NotFetchable(call.url)) =>
       /\ call.pc \in {"called", "done"}
       /\ now = 0
       /\ \A i \in 1..Len(fetchLog) : ~fetchLog[i].issued
       /\ call.pc = "done" => returned = <<Null>>

C22_Witness ==
    /\ FetcherReturned /\ call.delayMs > 0
    /\ call.url = <<"f", "t", "p", ":", "/", "/", "a", "/">>
    /\ returned = <<Null>> /\ now = 0

TheResponse == call.response[1]

\* The response indicates HTML: its Content-Type names text/html, in
\* whatever letter case.
IndicatesHtml(response) ==
    /\ response.contentType.kind = "str"
    /\ \E i \in 1..(Len(response.contentType.v) - 8) :
          ToLowerCase(Slice(response.contentType.v, i, i + 8)) = <<"t", "e", "x", "t", "/", "h", "t", "m", "l">>

FetchFails(response) ==
    \/ response.kind = "error"
    \/ ~response.ok
    \/ ~IndicatesHtml(response)
    \/ response.body = <<>>

\* C23: fetchUrlContent always returns: the no-content signal when the
\* status is not 2xx, the Content-Type is absent or not text/html, the body
\* is empty, or the transport failed; and else the body with the URL of the
\* response after redirects.
C23_NullOrContent ==
    /\ (FetcherCalled /\ call.pc = "done") => returned # <<>>
    /\ (FetcherReturned /\ call.response # NoResponse) =>
          IF FetchFails(TheResponse) THEN returned[1] = Null
          ELSE returned[1] = [null |-> FALSE, html |-> TheResponse.body,
                              finalUrl |-> TheResponse.url]

\* A request redirected to another URL returned its page with that URL.
C23_Witness ==
    /\ FetcherReturned /\ call.response # NoResponse
    /\ ~FetchFails(TheResponse)
    /\ TheResponse.url # call.url
    /\ returned[1].finalUrl = TheResponse.url /\ returned[1].html # <<>>

SomeFetchPending == \E i \in 1..Len(fetchLog) : fetchLog[i].outcome = "pending"

FetchErrorFor(url) ==
    \E k \in 1..Len(errors) : errors[k].url = url /\ errors[k].errorType = "FetchError"

\* C27 as claimed: the request to a server that never answers ends, as a
\* FetchError for its URL, and the crawl then returns.
C27_TimeoutEndsEveryFetch ==
    \A url \in SilentUrls :
       (\E i \in 1..Len(fetchLog) : fetchLog[i].url = url /\ fetchLog[i].issued)
          ~> (FetchErrorFor(url) /\ <>Finished)

\* The time the innermost visit has spent waiting.
Waited == now - Top.enteredAt

\* C29 as claimed: a visit waits only inside the Fetcher.  Up to its call of
\* fetchUrlContent, and so in a visit that ends without one, no time has
\* passed; when its request is issued it has waited delayMs once, or not
\* at all with delayMs <= 0.
C29_SuspendsOnlyInFetcher ==
    (phase = "running" /\ stack # <<>>) =>
       /\ Top.pc \in {"enter", "check", "waiting"} => Waited = 0
       /\ Top.pc = "fetching" => Waited = Max(params.delayMs, 0)

\* The list after the step starts with the list before it.
Extends(after, before) ==
    Len(before) <= Len(after) /\ SubSeq(after, 1, Len(before)) = before

OnlyGrows ==
    /\ visitedUrls \subseteq visitedUrls'
    /\ Extends(allCollectedUrls', allCollectedUrls)
    /\ Extends(linkRelationships', linkRelationships)
    /\ Extends(errors', errors)
    /\ stats'.totalUrlsScanned >= stats.totalUrlsScanned
    /\ stats'.totalUrlsCollected >= stats.totalUrlsCollected
    /\ stats'.maxDepthReached >= stats.maxDepthReached

\* C30: in every step of a crawl the visited set and the collected set only
\* gain members, linkRelationships and errors keep their entries and only
\* get new ones at the end, and the three counters never decrease.
C30_Monotonic == [][OnlyGrows]_vars

\* A finished crawl that visited a page at depth 1 after one at depth 2 and
\* has grown every accumulator.
C30_Witness ==
    /\ Finished
    /\ Cardinality(visitedUrls) >= 4 /\ Len(allCollectedUrls) >= 3
    /\ Len(linkRelationships) >= 3 /\ Len(errors) >= 1
    /\ stats.maxDepthReached >= 2
    /\ \E x, y \in 1..Len(fetchLog) :
          x < y /\ fetchLog[x].currentDepth = 2 /\ fetchLog[y].currentDepth = 1

Retrying == call.fn = "collectWithRetry"

Attempts == call.attempts

AtMostRetriesPlusOne == Len(Attempts) <= Max(call.retries + 1, 0)

\* Only the last attempt can be running or have resolved: every attempt
\* before another one was rejected.
NoAttemptAfterSuccess ==
    \A i \in 1..(Len(Attempts) - 1) : Attempts[i].outcome = "rejected"

WaitsBetweenAttempts ==
    \A i \in 1..(Len(Attempts) - 1) :
       Attempts[i + 1].startedAt = Attempts[i].endedAt + call.retryDelay

ReturnsFirstSuccessOrLastError ==
    call.pc = "done" =>
       /\ returned # <<>>
       /\ now = (IF Attempts = <<>> THEN 0 ELSE Attempts[Len(Attempts)].endedAt)
       /\ IF Attempts # <<>> /\ Attempts[Len(Attempts)].outcome = "resolved"
          THEN returned[1] = Resolves(result[1]) /\ phase = "done"
          ELSE /\ returned[1].kind = "rejected"
               /\ Len(Attempts) = Max(call.retries + 1, 0)
               /\ Attempts # <<>> =>
                     returned[1].value.attempt = Len(Attempts) - 1

\* C26: at most retries + 1 attempts; the first attempt that resolves gives
\* the value and is the last one, also when its result holds errors;
\* retryDelay passes between an attempt and the next and no time after the
\* last; when all attempts reject, the error thrown is the last attempt's.
C26_RetryPolicy ==
    Retrying =>
       /\ AtMostRetriesPlusOne
       /\ NoAttemptAfterSuccess
       /\ WaitsBetweenAttempts
       /\ ReturnsFirstSuccessOrLastError

\* The second attempt resolved, with errors in its result, after a first
\* one that rejected; a third was allowed and not made.
C26_Witness ==
    /\ Retrying /\ call.pc = "done" /\ call.retries = 2 /\ call.retryDelay > 0
    /\ Len(Attempts) = 2
    /\ returned[1].kind = "resolved" /\ returned[1].value.errors # <<>>

Merged == call.fn = "mergeConfig" /\ call.pc = "done"

\* C28: every option of the configuration file that was not given on the
\* command line keeps the file's value in the merged configuration, and
\* every option given on the command line has the given value.
C28_OnlyExplicitOverrides ==
    Merged =>
       /\ \A key \in DOMAIN call.fileConfig \ DOMAIN call.given :
             returned[1][key] = call.fileConfig[key]
       /\ \A key \in DOMAIN call.given : returned[1][key] = call.given[key]

Multiple == call.fn = "collectMultiple"

TaskOutcome(i) ==
    Outcome(IF i = call.current THEN Executing ELSE call.tasks[i].crawl)

TaskEnded(i) ==
    \/ call.tasks[i].status \in {"resolved", "rejected"}
    \/ i = call.current /\ phase \in {"done", "rejected"}

\* C24: whatever the interleaving of the crawls of collectMultiple, every
\* crawl that has ended gave what the crawl of its URL gave alone (the
\* collected URLs, relationships, errors and counts of the result, times
\* apart).
C24_SameAsAlone ==
    Multiple =>
       \A i \in DOMAIN call.tasks : TaskEnded(i) => TaskOutcome(i) = call.alone[i]

\* Two crawls of the same site have resolved after one was suspended in
\* favour of the other while both had visited the same URL.
C24_Witness ==
    /\ Multiple /\ call.pc = "done" /\ call.met
    /\ Len(call.tasks) = 2
    /\ \A i \in DOMAIN call.tasks :
          /\ call.tasks[i].status = "resolved"
          /\ Len(call.tasks[i].crawl.allCollectedUrls) > 1

AtMostLimitInFlight == InFlight(call.tasks) <= Max(1, call.concurrency)

StartedInOrder ==
    \A i, j \in DOMAIN call.tasks :
       (i < j /\ call.tasks[j].status # "queued") => call.tasks[i].status # "queued"

ResolvedInOrder ==
    /\ returned # <<>>
    /\ returned[1].kind = "resolved"
    /\ Len(returned[1].value) = Len(call.urls)
    /\ \A i \in DOMAIN call.urls :
          returned[1].value[i].initialUrl = Trim(call.urls[i])

\* C25: never more than max(1, concurrency) crawls in flight, the crawls
\* started in the order of the list, and when all is over the call has
\* resolved to one result for each URL, in the order of the list ([] for
\* the empty list, for which no crawl was started).
C25_OneResultPerUrl ==
    Multiple =>
       /\ AtMostLimitInFlight
       /\ StartedInOrder
       /\ call.pc = "done" => ResolvedInOrder

FoundOn(i) == {link \in Range(fetchLog[i].links) : link \in CollectedSet}

Founds == [k \in 1..Len(linkRelationships) |-> linkRelationships[k].found]

ScopeOn(url) == IF url = params.initialUrl THEN UseScope(0) ELSE NoScope

ContentsOf(url) == {FetchedContent[r] : r \in Network[web][url]}

\* Whatever the network answers, the page is fetched and parsed.
AlwaysParsed(url) ==
    /\ ValidUrl[url]
    /\ \A fetched \in ContentsOf(url) :
          ~fetched.null /\ ~ExtractedLinks[fetched][ScopeOn(url)].threw

LinksOn(url) ==
    {link \in Urls : \A fetched \in ContentsOf(url) :
                        link \in Range(ExtractedLinks[fetched][ScopeOn(url)].links)}

Admitted(url) == url = params.initialUrl \/ FilterDecision[url][params.filters]

\* The URLs at the end of a chain of at most n links from the initial URL,
\* all of whose pages are admitted and always fetched and parsed, and which
\* are admitted themselves.
RECURSIVE WithinLinks(_)
WithinLinks(n) ==
    IF n = 0 THEN {params.initialUrl}
    ELSE LET nearer == WithinLinks(n - 1)
         IN nearer \cup {link \in Urls :
                           /\ Admitted(link)
                           /\ \E page \in nearer : AlwaysParsed(page) /\ link \in LinksOn(page)}

\* C32: when the crawl returns, allCollectedUrls holds every URL within
\* maxDepth links of the initial URL along pages that are admitted, fetched
\* and parsed.
C32_ReachableIsCollected ==
    Finished => WithinLinks(maxDepth) \subseteq Range(TheResult.allCollectedUrls)

Place(url) == CHOOSE k \in 1..Len(allCollectedUrls) : allCollectedUrls[k] = url

\* The call that fetched the page from whose links the URL at place i was
\* collected, i > 1.
FoundBy(i) ==
    CHOOSE j \in 1..Len(fetchLog) : allCollectedUrls[i] \in Range(fetchLog[j].found)

ParentPlace(i) == Place(fetchLog[FoundBy(i)].url)

\* The places of the URL at place i and of the pages that led to it.
RECURSIVE PathTo(_)
PathTo(i) ==
    IF i <= 1 \/ ParentPlace(i) >= i THEN {i} ELSE {i} \cup PathTo(ParentPlace(i))

IsSubsequence(part, whole) ==
    \E places \in [1..Len(part) -> 1..Len(whole)] :
       /\ \A k \in 1..Len(part) : whole[places[k]] = part[k]
       /\ \A k \in 1..(Len(part) - 1) : places[k] < places[k + 1]

\* C33: allCollectedUrls is in depth-first pre-order of the discovery: the
\* initial URL is first; every other URL was collected from the links of
\* exactly one page, which is before it in the list and is the URL just
\* before it or one of the pages that led to that one (so that what was
\* found below an earlier link of a page precedes what is found from a later
\* link); the URLs collected from one page are in the order of its links
\* and of the list.
C33_PreOrder ==
    (Started /\ allCollectedUrls # <<>>) =>
       /\ allCollectedUrls[1] = params.initialUrl
       /\ \A i \in 2..Len(allCollectedUrls) :
             /\ Cardinality({j \in 1..Len(fetchLog) :
                                allCollectedUrls[i] \in Range(fetchLog[j].found)}) = 1
             /\ ParentPlace(i) < i
             /\ ParentPlace(i) \in PathTo(i - 1)
       /\ \A j \in 1..Len(fetchLog) :
             /\ IsSubsequence(fetchLog[j].found, fetchLog[j].links)
             /\ IsSubsequence(fetchLog[j].found, allCollectedUrls)

\* A finished crawl in which a URL found on a page other than the initial
\* one precedes a URL found later on the initial page.
C33_Witness ==
    /\ Finished
    /\ \E i, j \in 2..Len(allCollectedUrls) :
          i < j /\ ParentPlace(i) # 1 /\ ParentPlace(j) = 1

\* The selector denotes anchor elements: what it matches are a elements.
DenotesAnchors(doc, matched) == \A i \in matched : doc[i].tag = <<"a">>

\* C34: when the selector matches a node, the links are the hrefs of the
\* matched nodes if these are anchors, and otherwise those of the a[href]
\* elements below the matched nodes.
C34_ContainerYieldsItsLinks ==
    (Extracted /\ ~returned[1].threw
       /\ Matches(call.htmlContent, call.cssSelector) # {}) =>
       LET matched == Matches(call.htmlContent, call.cssSelector)
       IN Range(returned[1].links) =
             LinksOf(call.htmlContent,
                     IF DenotesAnchors(call.htmlContent, matched) THEN matched
                     ELSE FindAnchors(call.htmlContent, matched),
                     call.baseUrl)

MalformedRegex(filters) ==
    /\ Truthy(filters)
    /\ \E i \in 1..Len(filters.v) :
          /\ Truthy(filters.v[i].regex)
          /\ \E p \in (IF filters.v[i].regex.kind = "arr"
                        THEN Range(filters.v[i].regex.v)
                        ELSE {filters.v[i].regex.v}) : RegExpTest(p, <<>>) = "throw"

\* C36: a filter list that contains a malformed regex pattern is rejected
\* before the crawl scans or fetches any URL: in a crawl called with such a
\* list no URL is ever added to the VisitedSet and fetchUrlContent is never
\* called.
C36_MalformedRegexRejectedBeforeCrawl ==
    MalformedRegex(params.filters) => (visitedUrls = {} /\ fetchLog = <<>>)

\* C37: at every point of a crawl stats.totalUrlsCollected is the number of
\* members of the collected set, which holds no URL twice, and
\* stats.totalUrlsScanned is the size of the VisitedSet; the result carries
\* the same counts and the collected set as allCollectedUrls.
C37_CountersAreSetSizes ==
    /\ stats.totalUrlsCollected = Cardinality(Range(allCollectedUrls))
    /\ Len(allCollectedUrls) = Cardinality(Range(allCollectedUrls))
    /\ stats.totalUrlsScanned = Cardinality(visitedUrls)
    /\ Finished =>
          /\ Len(TheResult.allCollectedUrls) = TheResult.stats.totalUrlsCollected
          /\ TheResult.allCollectedUrls = allCollectedUrls
          /\ TheResult.stats.totalUrlsScanned = Cardinality(visitedUrls)

\* A crawl has returned after it collected at least three URLs and scanned
\* more URLs than it collected.
C37_Witness ==
    /\ Finished
    /\ TheResult.stats.totalUrlsCollected >= 3
    /\ Cardinality(visitedUrls) > TheResult.stats.totalUrlsCollected
    /\ Cardinality(Range(TheResult.allCollectedUrls)) = TheResult.stats.totalUrlsCollected

\* Every fetched page has a non-empty resolved URL.
ResolvedUrlsGiven == \A i \in ParsedPages : fetchLog[i].finalUrl # <<>>

\* The relationships of a result whose found value is the URL.
FoundAs(url) ==
    {k \in 1..Len(TheResult.linkRelationships) :
        TheResult.linkRelationships[k].found = url}

\* C38: provided every fetched page has a non-empty resolved URL, in every
\* result each URL of allCollectedUrls other than the initial URL is the
\* found value of exactly one LinkRelationship and the initial URL of none,
\* and linkRelationships has totalUrlsCollected - 1 entries.
C38_OneRelationshipPerCollected ==
    (Finished /\ ResolvedUrlsGiven) =>
       /\ \A url \in Range(TheResult.allCollectedUrls) :
             Cardinality(FoundAs(url)) = IF url = params.initialUrl THEN 0 ELSE 1
       /\ Len(TheResult.linkRelationships) = TheResult.stats.totalUrlsCollected - 1

\* A crawl has returned two relationships or more, after it parsed a page
\* that links back to the initial URL and scanned a URL it did not collect.
C38_Witness ==
    /\ Finished
    /\ ResolvedUrlsGiven
    /\ Len(TheResult.linkRelationships) >= 2
    /\ \E i \in ParsedPages : params.initialUrl \in Range(fetchLog[i].links)
    /\ Cardinality(visitedUrls) > TheResult.stats.totalUrlsCollected

\* fetchUrlContent is called at most once per URL, for URLs of the
\* VisitedSet met at a depth below maxDepth only.
C39_OneFetchPerUrlBelowMaxDepth ==
    /\ NoDuplicates(FetchedUrls)
    /\ \A i \in 1..Len(fetchLog) :
          /\ fetchLog[i].url \in visitedUrls
          /\ fetchLog[i].currentDepth < maxDepth
    /\ Cardinality(PendingFetches) <= 1

\* C39: every crawl terminates: on any web, with cycles or without, when
\* every fetch returns, a collectWebLinks that was called returns a result,
\* after at most one fetch per distinct URL discovered at a depth below
\* maxDepth, with no fetch pending and no visit left open.
C39_Terminates ==
    /\ []C39_OneFetchPerUrlBelowMaxDepth
    /\ (phase = "running") ~> Finished
    /\ [](Finished => PendingFetches = {} /\ stack = <<>>)

\* A crawl has returned after three fetches or more, one of them of a page
\* that links back to the initial URL.
C39_Witness ==
    /\ Finished
    /\ Len(fetchLog) >= 3
    /\ \E i \in ParsedPages :
          /\ fetchLog[i].currentDepth >= 1
          /\ params.initialUrl \in Range(fetchLog[i].links)

RejectedTasks == {i \in DOMAIN call.tasks : call.tasks[i].status = "rejected"}

ResolvedTasks == {i \in DOMAIN call.tasks : call.tasks[i].status = "resolved"}

\* C40: collectMultiple is all-or-nothing: as soon as the crawl of one URL of
\* the list has rejected, collectMultiple has rejected, with the error of a
\* crawl that rejected and none of the results of the other URLs, and it
\* stays so when the other crawls complete; it resolves only when no crawl
\* rejected.
C40_AllOrNothing ==
    Multiple =>
       /\ RejectedTasks # {} =>
             /\ returned # <<>>
             /\ returned[1].kind = "rejected"
             /\ returned[1].value \in RejectedTasks
       /\ (returned # <<>> /\ returned[1].kind = "resolved") =>
             ResolvedTasks = DOMAIN call.tasks

\* collectMultiple has rejected although the crawl of another URL of the
\* list completed successfully and collected URLs.
C40_Witness ==
    /\ Multiple /\ call.pc = "done"
    /\ returned # <<>> /\ returned[1].kind = "rejected"
    /\ RejectedTasks # {}
    /\ \E i \in ResolvedTasks : Len(call.tasks[i].crawl.result[1].allCollectedUrls) > 1
====
